---- MODULE Spec2Model ----
(***************************************************************************)
(* A model of src/src/App.jsx (the "me first" budgeting app): the payday   *)
(* calculation, the pay-period partition, the budget buckets, the period   *)
(* aggregates, the impulse score, the quiz and the creation and edit forms. *)
(*                                                                         *)
(* Dates.  A JavaScript Date that holds a local midnight is modelled by    *)
(* its local day number: the count of calendar days since 1970-01-01.      *)
(* Daylight-saving changes are not modelled: the host zone is a fixed      *)
(* offset from UTC, in minutes east of Greenwich (utcOffset).  A           *)
(* "YYYY-MM-DD" string is modelled by the triple <<year, month, day>> it   *)
(* spells, month in 1..12.                                                 *)
(*                                                                         *)
(* Amounts are integers (euros); floating-point rounding is not modelled.  *)
(***************************************************************************)
EXTENDS Integers, Sequences, FiniteSets, TLC

VARIABLES
  today,        \* getNextPayday's `today`: the local day number of "now"
  utcOffset,    \* the host zone, minutes east of UTC
  paydayDay,    \* the dayOfMonth argument / the paydayDay setting
  nextPayday,   \* what the last getNextPayday call computed and returned
  spending,     \* the transactions, in insertion order
  periods,      \* what the last getPayPeriods call returned
  budget,       \* the budget buckets, in display order
  recurring,    \* the recurring expenses
  monthlyPay,   \* the monthly income setting
  periodIdx,    \* the selected period
  view,         \* the figures the last render computed (lines 442-448, 941-952)
  lastToggle,   \* the last category click: its bucket, category and kind
  wishItem,     \* impulseScore's arguments
  score,        \* what the last impulseScore call returned
  goals,        \* the savings goals
  wishlist,     \* the wishlist items
  quizItem,     \* the item whose quiz is open, or null
  quizAns,      \* the answers given so far: question index (from 0) -> "yes" / "no"
  draftSpend,   \* the "Add transaction" form
  draftWish,    \* the "Add to wishlist" form
  draftGoal,    \* the "New savings goal" form
  draftRecurr,  \* the "New recurring expense" form
  editSpend,    \* the copy of the transaction being edited, or null
  sheet,        \* the sheet that is open, or null
  dateStr,      \* localDate's argument
  parsed,       \* what the last localDate call returned
  editGoal,     \* the copy of the goal being edited, or null
  editRecurr,   \* the copy of the recurring expense being edited, or null
  ready,        \* the stored values were loaded, or the wait for them was given up
  cancelled,    \* the load effect's `cancelled`: the component was unmounted
  fallbackTimer, \* the 2-second timer: "armed", "fired" or "cleared"
  loadAll,      \* where loadAll is: "reading", "read" (the storage has read the values) or "done"
  fetched,      \* what the storageGet calls returned, while loadAll holds it
  stored        \* the persisted storage: key -> the value stored, or null

\* The state of the forms, the goals and the wishlist.
formVars == <<goals, wishlist, quizItem, quizAns, draftSpend, draftWish, draftGoal,
              draftRecurr, editSpend, sheet, dateStr, parsed>>

\* The edit copies of a goal and of a recurring expense.
editVars == <<editGoal, editRecurr>>

\* The state of the load effect (lines 386-423).
mountVars == <<ready, cancelled, fallbackTimer, loadAll, fetched>>

vars == <<today, utcOffset, paydayDay, nextPayday, spending, periods, budget,
          recurring, monthlyPay, periodIdx, view, lastToggle, wishItem, score,
          formVars, editVars, mountVars, stored>>

\* Before the first render / the first category click of a behaviour.
NoView   == [periodSpend |-> 0, recurringTotal |-> 0, freeToSpend |-> 0,
             remaining |-> 0, spentByCat |-> <<>>, buckets |-> <<>>]
NoToggle == [kind |-> "none", bucket |-> 0, cat |-> "", from |-> 0]
\* Before the first getNextPayday call of a behaviour.
NoPayday == [branch |-> -1, cand |-> 0, d |-> 0, iso |-> <<0, 0, 0>>]

\* The elements of a sequence.
Range(seq) == {seq[i] : i \in 1 .. Len(seq)}

Min(a, b) == IF a <= b THEN a ELSE b
Max(a, b) == IF a >= b THEN a ELSE b

(***************************************************************************)
(* The JavaScript Date operations the code uses, on local day numbers.     *)
(***************************************************************************)

\* Day number of the proleptic Gregorian date y-m-d, m in 1..12, d >= 1.
DaysFromCivil(y, m, d) ==
  LET yy  == IF m <= 2 THEN y - 1 ELSE y
      era == yy \div 400
      yoe == yy - era * 400
      mp  == IF m > 2 THEN m - 3 ELSE m + 9
      doy == (153 * mp + 2) \div 5 + d - 1
      doe == yoe * 365 + yoe \div 4 - yoe \div 100 + doy
  IN  era * 146097 + doe - 719468

\* The calendar date <<y, m, d>> (m in 1..12) of day number z.
CivilOfDay(z) ==
  LET zz  == z + 719468
      era == zz \div 146097
      doe == zz - era * 146097
      yoe == (doe - doe \div 1460 + doe \div 36524 - doe \div 146096) \div 365
      doy == doe - (365 * yoe + yoe \div 4 - yoe \div 100)
      mp  == (5 * doy + 2) \div 153
      d   == doy - (153 * mp + 2) \div 5 + 1
      m   == IF mp < 10 THEN mp + 3 ELSE mp - 9
      y   == yoe + era * 400 + (IF m <= 2 THEN 1 ELSE 0)
  IN  <<y, m, d>>

\* The calendar of the years the model's dates fall in, tabulated once: a date
\* outside these years is an error of the model, never a wrong answer.
CalendarYears == 2022 .. 2026
CivilTable ==
  [z \in DaysFromCivil(2022, 1, 1) .. DaysFromCivil(2026, 12, 31) |-> CivilOfDay(z)]
MonthStartTable ==
  [y \in CalendarYears |-> [m \in 1 .. 12 |-> DaysFromCivil(y, m, 1)]]

CivilFromDays(z) == CivilTable[z]

\* new Date(year, month, day): month is 0-based and may lie outside 0..11, day may
\* lie outside the month; both carry, as in JavaScript.
NewDate(year, month, day) ==
  MonthStartTable[year + month \div 12][(month % 12) + 1] + day - 1

GetFullYear(d) == CivilFromDays(d)[1]
GetMonth(d)    == CivilFromDays(d)[2] - 1
GetDate(d)     == CivilFromDays(d)[3]
\* 0 = Sunday .. 6 = Saturday; 1970-01-01 was a Thursday.
GetDay(d)      == (d + 4) % 7

\* d.setDate(n)
SetDate(d, n) == NewDate(GetFullYear(d), GetMonth(d), n)
\* d.setMonth(n): the day-of-month is kept and carries when the month is shorter.
SetMonth(d, n) == NewDate(GetFullYear(d), n, GetDate(d))

\* d.toISOString().split("T")[0] of a local midnight: the calendar date, in UTC, of
\* the instant at which day d starts in the host zone.
ToISODate(d, offset) == CivilFromDays((d * 1440 - offset) \div 1440)

\* new Date(str): the string read as midnight UTC; the local day of that instant.
localDateAsUTC(str) ==
  (NewDate(str[1], str[2] - 1, str[3]) * 1440 + utcOffset) \div 1440

\* new Date(str + "T00:00:00"): a date-time without a zone is local time, so the
\* result is local midnight of the date the string spells, whatever the host zone.
localDate(str) == NewDate(str[1], str[2] - 1, str[3])

(***************************************************************************)
(* getNextPayday                                                           *)
(***************************************************************************)

\* Candidate with the day not capped: new Date(year, month, dayOfMonth).
CandidateUncapped(t, dayOfMonth, offset) ==
  LET rawMonth == GetMonth(t) + offset
      year     == GetFullYear(t) + rawMonth \div 12
      month    == rawMonth % 12
  IN  NewDate(year, month, dayOfMonth)

\* Candidate with the day capped to the length of the month after the target month.
CandidateCappedLate(t, dayOfMonth, offset) ==
  LET rawMonth == GetMonth(t) + offset
      year     == GetFullYear(t) + rawMonth \div 12
      month    == rawMonth % 12
      lastDay  == GetDate(NewDate(year, month + 2, 0))
      safeDay  == Min(dayOfMonth, lastDay)
  IN  NewDate(year, month, safeDay)

\* Lines 80-85 (and 90-95 with offset 1): the candidate of the month `offset`
\* months after today's, its day capped to the month's length.
Candidate(t, dayOfMonth, offset) ==
  LET rawMonth == GetMonth(t) + offset
      year     == GetFullYear(t) + rawMonth \div 12
      month    == rawMonth % 12
      lastDay  == GetDate(NewDate(year, month + 1, 0))
      safeDay  == Min(dayOfMonth, lastDay)
  IN  NewDate(year, month, safeDay)

\* Lines 86-87: Saturday moves one day back, Sunday two.
WeekendAdjust(d) ==
  LET d1 == IF GetDay(d) = 6 THEN SetDate(d, GetDate(d) - 1) ELSE d
  IN  IF GetDay(d1) = 0 THEN SetDate(d1, GetDate(d1) - 2) ELSE d1

\* Lines 90-95: the candidate built after the loop; the code adds 1 to the month.
FallbackCandidate(t, dayOfMonth) == Candidate(t, dayOfMonth, 1)

\* The call's outcome: the branch that returned (0, 1: the loop's offset; 2: the
\* code after the loop), the candidate before and after the weekend rule, and the
\* string returned.
PaydayResult(branch, cand, offset) ==
  [branch |-> branch, cand |-> cand, d |-> WeekendAdjust(cand),
   iso |-> ToISODate(WeekendAdjust(cand), offset)]

\* getNextPayday with d > today as the loop's test.
getNextPaydayStrict(t, offset, dayOfMonth) ==
  LET c0 == Candidate(t, dayOfMonth, 0)
      c1 == Candidate(t, dayOfMonth, 1)
  IN  IF WeekendAdjust(c0) > t THEN PaydayResult(0, c0, offset)
      ELSE IF WeekendAdjust(c1) > t THEN PaydayResult(1, c1, offset)
      ELSE PaydayResult(2, FallbackCandidate(t, dayOfMonth), offset)

\* Lines 77-99.
getNextPayday(t, offset, dayOfMonth) ==
  LET c0 == Candidate(t, dayOfMonth, 0)
      c1 == Candidate(t, dayOfMonth, 1)
  IN  IF WeekendAdjust(c0) >= t THEN PaydayResult(0, c0, offset)
      ELSE IF WeekendAdjust(c1) >= t THEN PaydayResult(1, c1, offset)
      ELSE PaydayResult(2, FallbackCandidate(t, dayOfMonth), offset)

(***************************************************************************)
(* getPayPeriods                                                           *)
(***************************************************************************)

\* for (let i=0; i<6; i++)
NumPeriods == 6

\* The loop's chain with the next window ending the day before this one starts.
RECURSIVE PeriodBoundsGapped(_, _)
PeriodBoundsGapped(end, n) ==
  IF n = 0 THEN <<>>
  ELSE LET start == SetMonth(end, GetMonth(end) - 1)
       IN  <<[start |-> start, end |-> end]>> \o PeriodBoundsGapped(start - 1, n - 1)

\* Lines 128-133: n windows chained backward from `end`, each starting one
\* setMonth(-1) before its end; the next window ends where this one starts.
RECURSIVE PeriodBounds(_, _)
PeriodBounds(end, n) ==
  IF n = 0 THEN <<>>
  ELSE LET start == SetMonth(end, GetMonth(end) - 1)
       IN  <<[start |-> start, end |-> end]>> \o PeriodBounds(start, n - 1)

\* The filter with the end bound left exclusive: d >= p.start && d < p.end.
PeriodItemsEndExclusive(sp, p) ==
  SelectSeq(sp, LAMBDA s : localDate(s.date) >= p.start /\ localDate(s.date) < p.end)

\* Lines 136-143: the transactions with p.start <= date < the day after p.end.
PeriodItems(sp, p) ==
  LET endInclusive == SetDate(p.end, GetDate(p.end) + 1)
  IN  SelectSeq(sp, LAMBDA s : localDate(s.date) >= p.start
                               /\ localDate(s.date) < endInclusive)

\* Lines 125-146; the label is display only.
getPayPeriods(sp, np) ==
  LET pd == localDate(np)
      bs == PeriodBounds(pd, NumPeriods)
  IN  [i \in 1 .. Len(bs) |->
         [start |-> bs[i].start, end |-> bs[i].end, items |-> PeriodItems(sp, bs[i])]]

(***************************************************************************)
(* The budget buckets' category buttons (lines 1304-1319)                  *)
(***************************************************************************)

\* DEFAULT_SPEND_CATS
DEFAULT_SPEND_CATS == <<"Groceries", "Transport", "Dining", "Beauty", "Home",
                        "Entertainment", "Clothing", "Health", "Travel", "Other">>

\* arr.includes(c)
Includes(arr, c) == \E k \in 1 .. Len(arr) : arr[k] = c

\* Line 1273, 1306: the first bucket other than bucket i that holds cat (0: none).
TakenBy(bg, i, cat) ==
  LET others == {j \in 1 .. Len(bg) : j # i /\ Includes(bg[j].cats, cat)}
  IN  IF others = {} THEN 0 ELSE CHOOSE j \in others : \A k \in others : j <= k

\* The click that only adds to this bucket and leaves the other bucket as it was.
ToggledBudgetNoRemoval(bg, i, cat) ==
  LET included == Includes(bg[i].cats, cat)
  IN  [j \in 1 .. Len(bg) |->
         IF j = i
           THEN [bg[j] EXCEPT !.cats =
                   IF included THEN SelectSeq(bg[i].cats, LAMBDA c : c # cat)
                   ELSE Append(bg[i].cats, cat)]
           ELSE bg[j]]

\* Lines 1309-1318: the budget a click on cat's button in bucket i sets.
ToggledBudget(bg, i, cat) ==
  LET included == Includes(bg[i].cats, cat)
      takenBy  == TakenBy(bg, i, cat)
  IN  IF ~included /\ takenBy # 0
        THEN [j \in 1 .. Len(bg) |->
                IF bg[j].id = bg[takenBy].id
                  THEN [bg[j] EXCEPT !.cats = SelectSeq(bg[j].cats, LAMBDA c : c # cat)]
                ELSE IF bg[j].id = bg[i].id
                  THEN [bg[j] EXCEPT !.cats = Append(bg[j].cats, cat)]
                ELSE bg[j]]
        ELSE [j \in 1 .. Len(bg) |->
                IF j = i
                  THEN [bg[j] EXCEPT !.cats =
                          IF included THEN SelectSeq(bg[i].cats, LAMBDA c : c # cat)
                          ELSE Append(bg[i].cats, cat)]
                  ELSE bg[j]]

(***************************************************************************)
(* Exact arithmetic: a number that need not be whole is a fraction         *)
(* <<n, d>>, d > 0, in lowest terms.                                       *)
(***************************************************************************)

RECURSIVE Gcd(_, _)
Gcd(a, b) == IF b = 0 THEN a ELSE Gcd(b, a % b)
Abs(a) == IF a < 0 THEN -a ELSE a

Frac(n, d) == LET g == Gcd(Abs(n), d) IN <<n \div g, d \div g>>
FracAdd(a, b) == Frac(a[1] * b[2] + b[1] * a[2], a[2] * b[2])
FracMul(a, b) == Frac(a[1] * b[1], a[2] * b[2])
\* Math.min
FracMin(a, b) == IF a[1] * b[2] <= b[1] * a[2] THEN a ELSE b

(***************************************************************************)
(* The figures computed on every render (lines 441-448, 941-952)           *)
(***************************************************************************)

\* const TRANSACTION_TYPES; "" stands for a record with no type (!s.type).
TRANSACTION_TYPES == <<"Expense", "Transfer to Savings", "Investment">>
NoType == ""

\* arr.reduce((a,b)=>a+b.amount,0)
RECURSIVE SumAmounts(_)
SumAmounts(arr) ==
  IF arr = <<>> THEN 0 ELSE arr[1].amount + SumAmounts(Tail(arr))

\* The period's items taken whole, whatever their type.
ExpenseItemsUnfiltered(items) == items

\* Line 443: curPeriod.items.filter(s=>s.type==="Expense"||!s.type)
ExpenseItems(items) ==
  SelectSeq(items, LAMBDA s : s.type = "Expense" \/ s.type = NoType)

\* Line 448: the reduce that builds the category -> total object, left to right.
RECURSIVE SpentByCat(_, _)
SpentByCat(items, acc) ==
  IF items = <<>> THEN acc
  ELSE LET s == items[1]
           old == IF s.category \in DOMAIN acc THEN acc[s.category] ELSE 0
       IN  SpentByCat(Tail(items),
                      [c \in DOMAIN acc \cup {s.category} |->
                         IF c = s.category THEN old + s.amount ELSE acc[c]])

\* remaining held at zero when the period's spending exceeds what is free.
RemainingClamped(freeToSpend, periodSpend) == Max(freeToSpend - periodSpend, 0)

\* Line 447
Remaining(freeToSpend, periodSpend) == freeToSpend - periodSpend

\* A bucket's actual with the transfers and investments counted too.
BucketActualAnyType(b, items) ==
  SumAmounts(SelectSeq(items, LAMBDA s : Includes(b.cats, s.category)))

\* Lines 945, 947-949: the bucket's share of the items' expenses.
BucketActual(b, items) ==
  SumAmounts(SelectSeq(items, LAMBDA s : /\ Includes(b.cats, s.category)
                                         /\ (s.type = "Expense" \/ s.type = NoType)))

\* Lines 941-950: ideal, actual and over of every bucket.
BucketFigures(bg, items, pay) ==
  [i \in 1 .. Len(bg) |->
     LET ideal  == Frac(pay * bg[i].pct, 100)
         actual == BucketActual(bg[i], items)
     IN  [ideal |-> ideal, actual |-> actual, over |-> actual * ideal[2] > ideal[1]]]

\* Lines 442-448, 941-950: periodIdx counts from 0; periods[periodIdx] || all
\* transactions.
Render(sp, ps, idx, rec, pay, bg) ==
  LET curItems       == IF idx + 1 \in 1 .. Len(ps) THEN ps[idx + 1].items ELSE sp
      periodItems    == ExpenseItems(curItems)
      periodSpend    == SumAmounts(periodItems)
      recurringTotal == SumAmounts(rec)
      freeToSpend    == pay - recurringTotal
  IN  [periodSpend |-> periodSpend, recurringTotal |-> recurringTotal,
       freeToSpend |-> freeToSpend, remaining |-> Remaining(freeToSpend, periodSpend),
       spentByCat |-> SpentByCat(periodItems, <<>>),
       buckets |-> BucketFigures(bg, curItems, pay)]

\* The render that follows a state change: lines 441-448 and 941-950 on the new
\* state.
\* The state the save effects persist (lines 425-433), by key without its "mf:"
\* prefix.  monthlyHours and spendCats are not modelled.
PersistedState ==
  [pay |-> monthlyPay, paydayday |-> paydayDay, goals |-> goals,
   wishlist |-> wishlist, spending |-> spending, recurring |-> recurring,
   budget |-> budget]

Keys == DOMAIN PersistedState

\* Lines 425-433: after a render every effect whose value or whose `ready` changed
\* runs, and writes its key if ready.  storageSet's write is taken to land at once,
\* as localStorage.setItem does.
SavedBy(st, old, new, wasReady, isReady) ==
  [k \in Keys |->
     IF isReady /\ (new[k] # old[k] \/ ~wasReady) THEN <<new[k]>> ELSE st[k]]

SaveEffects ==
  stored' = SavedBy(stored, PersistedState, PersistedState', ready, ready')

\* The render that follows a state change (lines 441-448, 941-952).
RenderFigures ==
  /\ periods' = getPayPeriods(spending', nextPayday'.iso)
  /\ view' = Render(spending', periods', periodIdx', recurring', monthlyPay', budget')

\* The render and the save effects that follow it.
RenderAll == RenderFigures /\ SaveEffects

\* Date.now() at an add, read from a clock that has moved on since every earlier add
\* to the list.  Ids are only ever compared for equality, so such a reading is
\* modelled by the least number no entry of the list carries.
NextId(arr) ==
  CHOOSE n \in 1 .. (Len(arr) + 1) :
    /\ \A k \in 1 .. Len(arr) : arr[k].id # n
    /\ \A m \in 1 .. (n - 1) : \E k \in 1 .. Len(arr) : arr[k].id = m

(***************************************************************************)
(* The forms.  A number field holds "" until it is typed in and a number   *)
(* afterwards (NumInput, lines 161-175, hands a number to its onChange):   *)
(* <<>> stands for "" and for NaN, <<n>> for the number n.  null is <<>>   *)
(* and an object o that may be null is <<o>>.  Names that are only shown   *)
(* (a transaction's name, the labels) are left out.                        *)
(***************************************************************************)

NoNumber == <<>>
Null     == <<>>
NoSheet  == ""

\* parseFloat of a field's content: NaN for "", the number otherwise.
ParseFloat(v) == v
\* !v for a field's content or a parsed number: "", NaN and 0 are falsy.
Falsy(v) == v = NoNumber \/ v[1] = 0

\* Line 374-375: freshSpend().  `today` there is new Date().toISOString()'s date;
\* the hour of the day is not modelled, the instant is taken at local midnight.
freshSpend ==
  [category |-> "Groceries", amount |-> NoNumber, date |-> ToISODate(today, utcOffset),
   type |-> "Expense", goalId |-> NoNumber]
\* Lines 377-379
freshWish   == [name |-> "", price |-> NoNumber]
freshGoal   == [name |-> "", target |-> NoNumber, current |-> NoNumber]
freshRecurr == [name |-> "", amount |-> NoNumber]

\* Line 456: if (!amt || amt <= 0) return
SpendRejected(draft) ==
  LET amt == ParseFloat(draft.amount) IN Falsy(amt) \/ amt[1] <= 0

\* Lines 455-459: the list addSpend sets; a draft whose amount is not positive
\* leaves it as it is.
addSpendListAt(sp, draft, now) ==
  IF SpendRejected(draft) THEN sp
  ELSE Append(sp, [id |-> now, date |-> draft.date, category |-> draft.category,
                   amount |-> ParseFloat(draft.amount)[1], type |-> draft.type,
                   goalId |-> draft.goalId])

\* The list with Date.now() read from a clock that has moved on.
addSpendList(sp, draft) == addSpendListAt(sp, draft, NextId(sp))

\* g.map(x => ... current + amount) applied to every goal, whatever its id.
GoalsCreditedAll(gs, goalId, amount) ==
  [k \in 1 .. Len(gs) |-> [gs[k] EXCEPT !.current = @ + amount]]

\* The goal with the id credited, or the first goal when no goal has the id.
GoalsCreditedOrFirst(gs, goalId, amount) ==
  [k \in 1 .. Len(gs) |->
     IF \/ gs[k].id = goalId[1]
        \/ (k = 1 /\ \A j \in 1 .. Len(gs) : gs[j].id # goalId[1])
       THEN [gs[k] EXCEPT !.current = @ + amount] ELSE gs[k]]

\* Lines 461, 464: g.map(x=>x.id===parseInt(entry.goalId)?{...x,current:x.current+entry.amount}:x).
\* The select's option value is String(g.id) and parseInt gives the id back.
GoalsCredited(gs, goalId, amount) ==
  [k \in 1 .. Len(gs) |->
     IF gs[k].id = goalId[1] THEN [gs[k] EXCEPT !.current = @ + amount] ELSE gs[k]]

\* Lines 460-465: the goals addSpend sets.
addSpendGoals(gs, draft) ==
  IF SpendRejected(draft) THEN gs
  ELSE LET amount == ParseFloat(draft.amount)[1]
           g1 == IF draft.type = "Transfer to Savings" /\ draft.goalId # NoNumber
                   THEN GoalsCredited(gs, draft.goalId, amount) ELSE gs
       IN  IF draft.type = "Investment" /\ draft.goalId # NoNumber
             THEN GoalsCredited(g1, draft.goalId, amount) ELSE g1

\* Line 478: if (!draftWish.name || !price || price <= 0) return
WishRejected(draft) ==
  LET price == ParseFloat(draft.price)
  IN  draft.name = "" \/ Falsy(price) \/ price[1] <= 0

\* Line 479; the category is display only.
addWishListAt(wl, draft, now) ==
  IF WishRejected(draft) THEN wl
  ELSE Append(wl, [id |-> now, name |-> draft.name,
                   price |-> ParseFloat(draft.price)[1], daysWanted |-> 0,
                   quizScore |-> Null, savedAnswers |-> <<>>])

\* The list with Date.now() read from a clock that has moved on.
addWishList(wl, draft) == addWishListAt(wl, draft, NextId(wl))

\* Line 484: if (!draftGoal.name||!draftGoal.target) return
GoalRejected(draft) == draft.name = "" \/ Falsy(draft.target)

\* Line 485: target: parseFloat(target), current: parseFloat(current)||0
addGoalListAt(gs, draft, now) ==
  IF GoalRejected(draft) THEN gs
  ELSE Append(gs, [id |-> now, name |-> draft.name,
                   target |-> ParseFloat(draft.target)[1],
                   current |-> IF Falsy(ParseFloat(draft.current)) THEN 0
                               ELSE ParseFloat(draft.current)[1]])

\* The list with Date.now() read from a clock that has moved on.
addGoalList(gs, draft) == addGoalListAt(gs, draft, NextId(gs))

\* Line 492: if (!draftRecurr.name||!draftRecurr.amount) return
RecurrRejected(draft) == draft.name = "" \/ Falsy(draft.amount)

\* Line 493; the category and the day of month are display only.
addRecurringListAt(rec, draft, now) ==
  IF RecurrRejected(draft) THEN rec
  ELSE Append(rec, [id |-> now, amount |-> ParseFloat(draft.amount)[1]])

\* The list with Date.now() read from a clock that has moved on.
addRecurringList(rec, draft) == addRecurringListAt(rec, draft, NextId(rec))

\* Nothing is being edited; the load effect has run to its end and the save
\* effects have written every key since (lines 366, 368, 386-433).
Settled ==
  /\ editGoal = Null
  /\ editRecurr = Null
  /\ ready = TRUE
  /\ cancelled = FALSE
  /\ fallbackTimer = "cleared"
  /\ loadAll = "done"
  /\ fetched = Null
  /\ stored = [k \in Keys |-> <<PersistedState[k]>>]

\* The state of the forms, the goals and the wishlist after construction
\* (lines 355-356, 361-379).
FormsIdle ==
  /\ goals = <<>>
  /\ wishlist = <<>>
  /\ quizItem = Null
  /\ quizAns = <<>>
  /\ draftSpend = freshSpend
  /\ draftWish = freshWish
  /\ draftGoal = freshGoal
  /\ draftRecurr = freshRecurr
  /\ editSpend = Null
  /\ sheet = NoSheet
  /\ dateStr = <<>>
  /\ parsed = <<>>

(***************************************************************************)
(* submitQuiz's verdict (lines 506-509)                                    *)
(***************************************************************************)

\* QUIZ_Q: the weights; the questions' texts are display only.
QUIZ_Q == <<3, -2, 2, 2, 3>>

\* Lines 507-508: 5 plus the weights of the questions i (from 0) with
\* quizAns[i] === "yes"; a question with no answer adds nothing.
RECURSIVE QuizScore(_, _)
QuizScore(ans, n) ==
  IF n = 0 THEN 5
  ELSE QuizScore(ans, n - 1)
         + (IF (n - 1) \in DOMAIN ans /\ ans[n - 1] = "yes" THEN QUIZ_Q[n] ELSE 0)

\* The verdict with the score left as it is.
QuizNormUnclamped(ans) == QuizScore(ans, Len(QUIZ_Q))

\* Line 509: const norm=Math.max(0,Math.min(score,10))
QuizNorm(ans) == Max(0, Min(QuizScore(ans, Len(QUIZ_Q)), 10))

(***************************************************************************)
(* impulseScore, in exact arithmetic.                                      *)
(***************************************************************************)

\* impulseScore with the days term left uncapped: d = days/90.
impulseScoreUncapped(days, quiz) ==
  LET d == Frac(days, 90)
      q == IF quiz # <<>> THEN Frac(quiz[1], 10) ELSE Frac(3, 10)
  IN  FracMin(FracMul(FracAdd(FracMul(d, Frac(1, 2)), FracMul(q, Frac(1, 2))),
                      Frac(100, 1)),
              Frac(100, 1))

\* Lines 106-109; quiz is <<>> for null and <<n>> for the number n.
impulseScore(days, quiz) ==
  LET d == FracMin(Frac(days, 90), Frac(1, 1))
      q == IF quiz # <<>> THEN Frac(quiz[1], 10) ELSE Frac(3, 10)
  IN  FracMin(FracMul(FracAdd(FracMul(d, Frac(1, 2)), FracMul(q, Frac(1, 2))),
                      Frac(100, 1)),
              Frac(100, 1))

(***************************************************************************)
(* The application's constants and initial state.                          *)
(***************************************************************************)

\* DEFAULT_BUDGET: the colour and label are display only.
DEFAULT_BUDGET == <<
  [id |-> 1, pct |-> 20, cats |-> <<>>],
  [id |-> 2, pct |-> 30, cats |-> <<"Home">>],
  [id |-> 3, pct |-> 10, cats |-> <<"Transport">>],
  [id |-> 4, pct |-> 15, cats |-> <<"Groceries">>],
  [id |-> 5, pct |-> 15, cats |-> <<"Beauty", "Entertainment", "Clothing", "Dining">>],
  [id |-> 6, pct |-> 10, cats |-> <<>>] >>

\* useState(3200), useState(6)
DefaultMonthlyPay == 3200
DefaultPaydayDay  == 6

(***************************************************************************)
(* Bounds of the payday specification.                                     *)
(***************************************************************************)

\* `today` ranges over NumDays consecutive days from 1 December 2023: a year end,
\* a leap February and every month length.
StartDay == DaysFromCivil(2023, 12, 1)
NumDays  == 430
Days     == StartDay .. (StartDay + NumDays - 1)
\* Host zones: behind UTC, at UTC, ahead of UTC.
Offsets  == {-300, 0, 60}
\* The largest dayOfMonth argument tried.
MaxDayOfMonth == 31

(***************************************************************************)
(* SpecPayday: getNextPayday applied to every today, zone and dayOfMonth.  *)
(***************************************************************************)

PaydayInit ==
  /\ today \in Days
  /\ utcOffset \in Offsets
  /\ paydayDay \in 1 .. MaxDayOfMonth
  /\ nextPayday = NoPayday
  /\ spending = <<>>
  /\ periods = <<>>
  /\ budget = DEFAULT_BUDGET
  /\ recurring = <<>>
  /\ monthlyPay = DefaultMonthlyPay
  /\ periodIdx = 0
  /\ view = NoView
  /\ lastToggle = NoToggle
  /\ wishItem = <<>>
  /\ score = <<>>
  /\ FormsIdle
  /\ Settled

\* Line 352: const nextPayday = getNextPayday(paydayDay), on a render.
CallGetNextPayday ==
  /\ nextPayday' = getNextPayday(today, utcOffset, paydayDay)
  /\ UNCHANGED <<today, utcOffset, paydayDay, spending, periods, budget,
                 recurring, monthlyPay, periodIdx, view, lastToggle, wishItem, score, formVars,
                 editVars, mountVars, stored>>

PaydayNext == CallGetNextPayday

SpecPayday == PaydayInit /\ [][PaydayNext]_vars

(***************************************************************************)
(* Claims about getNextPayday (checked under SpecPayday).                  *)
(***************************************************************************)

PaydayCalled == nextPayday.branch >= 0

\* Number of days of month m (1..12) of year y, from the calendar's rules.
DaysInMonth(y, m) ==
  IF m = 2
    THEN (IF (y % 4 = 0 /\ y % 100 # 0) \/ y % 400 = 0 THEN 29 ELSE 28)
    ELSE (IF m \in {4, 6, 9, 11} THEN 30 ELSE 31)

\* C1: for every today and every paydayDayOfMonth in 1..28, the date getNextPayday
\* returns from its loop (offset 0 or 1) is on or after today.
C1_LoopResultNotBeforeToday ==
  (PaydayCalled /\ paydayDay \in 1 .. 28 /\ nextPayday.branch \in {0, 1})
    => localDate(nextPayday.iso) >= today

\* C2: the date getNextPayday returns, from the loop or from the fallback, is never
\* a Saturday or a Sunday.
C2_ResultNeverWeekend ==
  PaydayCalled => GetDay(localDate(nextPayday.iso)) \notin {0, 6}

\* C3 as stated: with paydayDayOfMonth = 31 the returned date's day-of-month is
\* min(31, number of days of the returned date's month).
C3_ResultIsLastDayOfMonth ==
  (PaydayCalled /\ paydayDay = 31)
    => nextPayday.iso[3] = Min(31, DaysInMonth(nextPayday.iso[1], nextPayday.iso[2]))

\* C3 as amended: with paydayDayOfMonth = 31 the candidate built before the weekend
\* rule is the last day of its month (day-of-month min(31, days of that month)); the
\* returned date is that day moved back by the weekend rule (1 day from a Saturday,
\* 2 from a Sunday) and, in a zone ahead of UTC, one more day by the conversion to
\* a string.
C3_LastDayMovedBack ==
  (PaydayCalled /\ paydayDay = 31)
    => LET c   == nextPayday.cand
           ymd == CivilFromDays(c)
           wk  == IF GetDay(c) = 6 THEN 1 ELSE IF GetDay(c) = 0 THEN 2 ELSE 0
           utc == IF utcOffset > 0 THEN 1 ELSE 0
       IN  /\ ymd[3] = Min(31, DaysInMonth(ymd[1], ymd[2]))
           /\ localDate(nextPayday.iso) = c - wk - utc

\* C3's case: a 30-day month that ends on a Sunday, in a zone ahead of UTC.
C3_Witness ==
  /\ PaydayCalled
  /\ paydayDay = 31
  /\ GetDate(nextPayday.cand) = 30
  /\ GetDay(nextPayday.cand) = 0
  /\ utcOffset > 0

\* C17: when neither candidate of the loop is on or after today, the date returned
\* is the payday of the month two months after today's month (offset 2), capped to
\* the month's length and moved off the weekend.
C17_FallbackIsOffsetTwo ==
  (PaydayCalled /\ nextPayday.branch = 2)
    => /\ nextPayday.cand = Candidate(today, paydayDay, 2)
       /\ localDate(nextPayday.iso) = WeekendAdjust(Candidate(today, paydayDay, 2))

\* C18: in every host zone, the string getNextPayday returns, parsed again with
\* localDate, is the calendar day getNextPayday computed and compared with today.
C18_ReturnedStringIsComputedDay ==
  PaydayCalled => localDate(nextPayday.iso) = nextPayday.d

\* C23: the candidate of the next month, before the weekend rule, is after today;
\* and getNextPayday returns from the code after its loop only when the candidate
\* of this month and the candidate of the next month, moved off the weekend, are
\* both before today, the next month's candidate falling on a weekend.
C23_FallbackOnlyAfterWeekendShift ==
  LET c0 == Candidate(today, paydayDay, 0)
      c1 == Candidate(today, paydayDay, 1)
  IN  /\ c1 > today
      /\ (PaydayCalled /\ nextPayday.branch = 2)
            => /\ WeekendAdjust(c0) < today
               /\ WeekendAdjust(c1) < today
               /\ GetDay(c1) \in {0, 6}

\* C23's case: the fallback was taken (today is a month's last day, a Saturday,
\* and the next month's first day is the payday).
C23_Witness ==
  /\ PaydayCalled
  /\ nextPayday.branch = 2
  /\ paydayDay = 1
  /\ GetDay(today) = 6

\* The month `offset` months after t's, as <<year, month>>, month in 1..12.
TargetMonth(t, offset) ==
  LET ymd == CivilFromDays(t)
      m0  == ymd[2] - 1 + offset
  IN  <<ymd[1] + m0 \div 12, (m0 % 12) + 1>>

\* C24: for every requested day, 29, 30 and 31 included, the candidate built for
\* this month and for the next month lies in that month, on day min(requested day,
\* number of days of the month); and the candidate of the call's returning branch
\* is on day min(requested day, number of days of its own month).
C24_CandidateInTargetMonth ==
  PaydayCalled =>
    /\ \A off \in 0 .. 1 :
         LET tm == TargetMonth(today, off)
         IN  CivilFromDays(Candidate(today, paydayDay, off))
               = <<tm[1], tm[2], Min(paydayDay, DaysInMonth(tm[1], tm[2]))>>
    /\ LET ymd == CivilFromDays(nextPayday.cand)
       IN  ymd[3] = Min(paydayDay, DaysInMonth(ymd[1], ymd[2]))

\* C24's case: day 31 asked of a February of 29 days and of one of 28 days.
C24_Witness ==
  /\ PaydayCalled
  /\ paydayDay = 31
  /\ CivilFromDays(nextPayday.cand) \in {<<2024, 2, 29>>, <<2025, 2, 28>>}

(***************************************************************************)
(* The handlers of the transaction list and of the period selector, each   *)
(* with the render that follows it.  `max` bounds the list's length.       *)
(***************************************************************************)

\* addSpend (lines 454-468) run on the form's content `draft`, and the render
\* that follows.  A rejected draft stays in the form.
addSpendAt(max, draft, now) ==
  /\ Len(spending) < max
  /\ spending' = addSpendListAt(spending, draft, now)
  /\ goals' = addSpendGoals(goals, draft)
  /\ draftSpend' = IF SpendRejected(draft) THEN draft ELSE freshSpend
  /\ sheet' = IF SpendRejected(draft) THEN sheet ELSE NoSheet
  /\ UNCHANGED <<today, utcOffset, paydayDay, nextPayday, budget, recurring,
                 monthlyPay, periodIdx, lastToggle, wishItem, score,
                 wishlist, quizItem, quizAns, draftWish, draftGoal, draftRecurr,
                 editSpend, dateStr, parsed,
                 editVars, mountVars>>
  /\ RenderAll

\* addSpend with a clock that has moved on since the earlier adds.
addSpend(max, draft) == addSpendAt(max, draft, NextId(spending))

\* The "Add transaction" form filled in with a date, a category, an amount and a
\* type, no goal chosen, and saved.
AddSpend(max, day, category, amount, type) ==
  addSpend(max, [category |-> category, amount |-> <<amount>>,
                 date |-> CivilFromDays(day), type |-> type, goalId |-> NoNumber])

\* Line 745: the row's onDelete removes the transaction by id; the render follows.
DeleteSpend(i) ==
  /\ spending' = SelectSeq(spending, LAMBDA x : x.id # spending[i].id)
  /\ UNCHANGED <<today, utcOffset, paydayDay, nextPayday, budget, recurring,
                 monthlyPay, periodIdx, lastToggle, wishItem, score, formVars,
                 editVars, mountVars>>
  /\ RenderAll

\* Line 676: setPeriodIdx(i=>Math.min(i+1,periods.length-1))
PeriodOlder ==
  /\ periodIdx' = Min(periodIdx + 1, Len(periods) - 1)
  /\ UNCHANGED <<today, utcOffset, paydayDay, nextPayday, spending, budget, recurring,
                 monthlyPay, lastToggle, wishItem, score, formVars,
                 editVars, mountVars>>
  /\ RenderAll

\* Line 683: setPeriodIdx(i=>Math.max(i-1,0))
PeriodNewer ==
  /\ periodIdx' = Max(periodIdx - 1, 0)
  /\ UNCHANGED <<today, utcOffset, paydayDay, nextPayday, spending, budget, recurring,
                 monthlyPay, lastToggle, wishItem, score, formVars,
                 editVars, mountVars>>
  /\ RenderAll

(***************************************************************************)
(* SpecPeriods: getPayPeriods over every anchor of a range and every       *)
(* transaction date near it.                                               *)
(***************************************************************************)

\* The anchors: NumAnchors consecutive days from 1 March 2024 (the 29th-31st of
\* March and May, whose setMonth(-1) carries, and a chain through a leap February
\* and a year end).
AnchorStart == DaysFromCivil(2024, 3, 1)
NumAnchors  == 92
\* Transactions are dated from MaxBack days before the anchor to the day after it.
MaxBack     == 35
\* The longest transaction list.
MaxPeriodTx == 1

PeriodsInit ==
  /\ today = StartDay
  /\ utcOffset = 0
  /\ paydayDay = DefaultPaydayDay
  /\ \E a \in AnchorStart .. (AnchorStart + NumAnchors - 1) :
       nextPayday = [branch |-> 0, cand |-> a, d |-> a, iso |-> CivilFromDays(a)]
  /\ spending = <<>>
  /\ periods = getPayPeriods(spending, nextPayday.iso)
  /\ budget = DEFAULT_BUDGET
  /\ recurring = <<>>
  /\ monthlyPay = DefaultMonthlyPay
  /\ periodIdx = 0
  /\ view = Render(spending, periods, periodIdx, recurring, monthlyPay, budget)
  /\ lastToggle = NoToggle
  /\ wishItem = <<>>
  /\ score = <<>>
  /\ FormsIdle
  /\ Settled

PeriodsNext ==
  \E day \in (localDate(nextPayday.iso) - MaxBack) .. (localDate(nextPayday.iso) + 1) :
    AddSpend(MaxPeriodTx, day, "Groceries", 10, "Expense")

SpecPeriods == PeriodsInit /\ [][PeriodsNext]_vars

(***************************************************************************)
(* Claims about getPayPeriods (checked under SpecPeriods).                 *)
(***************************************************************************)

\* C4: the periods are non-overlapping: no transaction is in the items of two
\* different periods; one dated on a boundary shared by two adjacent periods is in
\* the period it ends only.
C4_PeriodsDisjoint ==
  \A i, j \in 1 .. Len(periods) :
    i # j => Range(periods[i].items) \cap Range(periods[j].items) = {}

\* C5: each period's items are exactly the transactions whose calendar date d
\* satisfies start <= d <= end, in the list's order.
C5_ItemsAreWindow ==
  \A i \in 1 .. Len(periods) :
    periods[i].items =
      SelectSeq(spending,
                LAMBDA s : LET d == DaysFromCivil(s.date[1], s.date[2], s.date[3])
                           IN  periods[i].start <= d /\ d <= periods[i].end)

\* C5's case: a transaction dated exactly on a period's end is among its items.
C5_Witness ==
  \E i \in 1 .. Len(periods) :
    \E s \in Range(periods[i].items) : localDate(s.date) = periods[i].end

\* C6: exactly 6 periods, most recent first: period[0] ends on the next-payday
\* date, and each later period ends where the one before it starts.
C6_SixChainedPeriods ==
  /\ Len(periods) = 6
  /\ periods[1].end = DaysFromCivil(nextPayday.iso[1], nextPayday.iso[2], nextPayday.iso[3])
  /\ \A i \in 1 .. 5 : periods[i + 1].end = periods[i].start
  /\ \A i \in 1 .. 6 : periods[i].start < periods[i].end

\* C6's case: periods built from an anchor on the 31st, with a transaction recorded.
C6_Witness ==
  /\ Len(periods) = 6
  /\ GetDate(periods[1].end) = 31
  /\ Len(spending) > 0

\* C19: every period's start is its end moved back one calendar month: in the month
\* before the end's month, on the end's day-of-month when that month has it and on
\* that month's last day otherwise.
C19_StartIsOneMonthBack ==
  \A i \in 1 .. Len(periods) :
    LET e  == CivilFromDays(periods[i].end)
        py == IF e[2] = 1 THEN e[1] - 1 ELSE e[1]
        pm == IF e[2] = 1 THEN 12 ELSE e[2] - 1
    IN  CivilFromDays(periods[i].start) = <<py, pm, Min(e[3], DaysInMonth(py, pm))>>

(***************************************************************************)
(* SpecTotals: transactions of every type recorded and viewed period by    *)
(* period.                                                                 *)
(***************************************************************************)

\* The longest transaction list of SpecTotals and of SpecFree.
MaxTotalsTx == 2
MaxFreeTx   == 1
\* The most recurring expenses.
MaxRecurring == 1

TotalsInit ==
  /\ today = StartDay
  /\ utcOffset = 0
  /\ paydayDay = DefaultPaydayDay
  /\ nextPayday = getNextPayday(today, utcOffset, paydayDay)
  /\ spending = <<>>
  /\ periods = getPayPeriods(spending, nextPayday.iso)
  /\ budget = DEFAULT_BUDGET
  /\ recurring = <<>>
  /\ monthlyPay = DefaultMonthlyPay
  /\ periodIdx = 0
  /\ view = Render(spending, periods, periodIdx, recurring, monthlyPay, budget)
  /\ lastToggle = NoToggle
  /\ wishItem = <<>>
  /\ score = <<>>
  /\ FormsIdle
  /\ Settled

\* The amount entered with each type, so that a total tells which types it sums.
AmountOfType(type) ==
  CASE type = "Expense" -> 100
    [] type = "Transfer to Savings" -> 50
    [] type = "Investment" -> 25
    [] OTHER -> 10

\* Transactions are dated today (in the current period) or 40 days earlier.
TotalsNext ==
  \/ \E day \in {today, today - 40}, cat \in {"Groceries", "Dining"},
        type \in Range(TRANSACTION_TYPES) \cup {NoType} :
       AddSpend(MaxTotalsTx, day, cat, AmountOfType(type), type)
  \/ PeriodOlder
  \/ PeriodNewer

SpecTotals == TotalsInit /\ [][TotalsNext]_vars

\* The sum of the amounts of the entries of arr at the positions in S.
RECURSIVE SumAt(_, _)
SumAt(arr, S) ==
  IF S = {} THEN 0
  ELSE LET k == CHOOSE k \in S : TRUE IN arr[k].amount + SumAt(arr, S \ {k})

\* The sum of the values of a function.
RECURSIVE SumValues(_, _)
SumValues(f, S) ==
  IF S = {} THEN 0
  ELSE LET k == CHOOSE k \in S : TRUE IN f[k] + SumValues(f, S \ {k})

\* The items of the selected period.
SelectedItems == periods[periodIdx + 1].items

\* The positions, in the selected period's items, of the expenses of category c.
ExpensesOf(c) ==
  {k \in 1 .. Len(SelectedItems) :
     /\ SelectedItems[k].category = c
     /\ SelectedItems[k].type \notin {"Transfer to Savings", "Investment"}}

\* C8: spentByCat maps each category to the sum of the selected period's
\* transactions of that category that are expenses (type Expense or no type);
\* transfers and investments add nothing, a category with no expense has no entry,
\* and the totals sum to periodSpend.
C8_SpentByCatIsExpenseSum ==
  /\ DOMAIN view.spentByCat = {c \in Range(DEFAULT_SPEND_CATS) : ExpensesOf(c) # {}}
  /\ \A c \in DOMAIN view.spentByCat : view.spentByCat[c] = SumAt(SelectedItems, ExpensesOf(c))
  /\ SumValues(view.spentByCat, DOMAIN view.spentByCat) = view.periodSpend

\* C8's case: the selected period holds a 100 expense and a 50 transfer to savings
\* of Groceries, and the Groceries total is 100.
C8_Witness ==
  /\ \E k \in 1 .. Len(SelectedItems) :
       /\ SelectedItems[k].category = "Groceries"
       /\ SelectedItems[k].type = "Transfer to Savings"
       /\ SelectedItems[k].amount = 50
  /\ "Groceries" \in DOMAIN view.spentByCat
  /\ view.spentByCat["Groceries"] = 100

(***************************************************************************)
(* SpecFree: income, recurring expenses and period spending.               *)
(***************************************************************************)

\* addRecurring (lines 491-496) run on the form's content `draft`, and the render
\* that follows; the settings sheet is shown again.
addRecurringAt(draft, now) ==
  /\ Len(recurring) < MaxRecurring
  /\ recurring' = addRecurringListAt(recurring, draft, now)
  /\ draftRecurr' = IF RecurrRejected(draft) THEN draft ELSE freshRecurr
  /\ sheet' = IF RecurrRejected(draft) THEN sheet ELSE "settings"
  /\ UNCHANGED <<today, utcOffset, paydayDay, nextPayday, spending, budget,
                 monthlyPay, periodIdx, lastToggle, wishItem, score,
                 goals, wishlist, quizItem, quizAns, draftSpend, draftWish, draftGoal,
                 editSpend, dateStr, parsed,
                 editVars, mountVars>>
  /\ RenderAll

\* addRecurring with a clock that has moved on since the earlier adds.
addRecurring(draft) == addRecurringAt(draft, NextId(recurring))

\* The "New recurring expense" form filled in with a name and an amount, and added.
AddRecurring(amount) == addRecurring([name |-> "Rent", amount |-> <<amount>>])

\* deleteRecurring (line 498), of the recurring expense at position i.
DeleteRecurring(i) ==
  /\ recurring' = SelectSeq(recurring, LAMBDA x : x.id # recurring[i].id)
  /\ sheet' = "settings"
  /\ UNCHANGED <<today, utcOffset, paydayDay, nextPayday, spending, budget,
                 monthlyPay, periodIdx, lastToggle, wishItem, score,
                 goals, wishlist, quizItem, quizAns, draftSpend, draftWish, draftGoal,
                 draftRecurr, editSpend, dateStr, parsed,
                 editVars, mountVars>>
  /\ RenderAll

\* Line 1166: the income field's onChange.
SetMonthlyPay(v) ==
  /\ monthlyPay' = v
  /\ UNCHANGED <<today, utcOffset, paydayDay, nextPayday, spending, budget,
                 recurring, periodIdx, lastToggle, wishItem, score, formVars,
                 editVars, mountVars>>
  /\ RenderAll

FreeNext ==
  \/ \E amount \in {0, 300, 800} : AddRecurring(amount)
  \/ \E i \in 1 .. Len(recurring) : DeleteRecurring(i)
  \/ \E v \in {0, 1000, 3200} : SetMonthlyPay(v)
  \/ \E amount \in {600, 2500}, type \in {"Expense", "Investment"} :
       AddSpend(MaxFreeTx, today, "Groceries", amount, type)
  \/ \E i \in 1 .. Len(spending) : DeleteSpend(i)
  \/ PeriodOlder
  \/ PeriodNewer

SpecFree == TotalsInit /\ [][FreeNext]_vars

\* C9: freeToSpend is the income less the sum of the recurring amounts, remaining
\* is freeToSpend less the selected period's expense total, negative when the
\* period is overspent; income 3200, recurring 800 and period expenses 600 give
\* 2400 and 1800.
C9_FreeAndRemaining ==
  /\ view.freeToSpend = monthlyPay - SumAt(recurring, 1 .. Len(recurring))
  /\ view.remaining = view.freeToSpend
                        - SumAt(SelectedItems,
                                {k \in 1 .. Len(SelectedItems) :
                                   SelectedItems[k].type \in {"Expense", NoType}})
  /\ (monthlyPay = 3200 /\ view.recurringTotal = 800 /\ view.periodSpend = 600)
       => (view.freeToSpend = 2400 /\ view.remaining = 1800)

\* C9's case: the selected period's expenses exceed what is free to spend.
C9_Witness ==
  /\ Len(recurring) > 0
  /\ view.periodSpend > view.freeToSpend
  /\ view.remaining < 0

(***************************************************************************)
(* SpecBudget: clicks on the category buttons, from the default buckets.   *)
(***************************************************************************)

\* The categories whose buttons are clicked: the first NumClickCats of ClickCats
\* (one alone in its bucket, one of the four of "Personal & Fun", one in no
\* bucket, ...).
ClickCats    == <<"Home", "Dining", "Health", "Groceries", "Travel">>
NumClickCats == 3

BudgetInit ==
  /\ today = StartDay
  /\ utcOffset = 0
  /\ paydayDay = DefaultPaydayDay
  /\ nextPayday = NoPayday
  /\ spending = <<>>
  /\ periods = <<>>
  /\ budget = DEFAULT_BUDGET
  /\ recurring = <<>>
  /\ monthlyPay = DefaultMonthlyPay
  /\ periodIdx = 0
  /\ view = NoView
  /\ lastToggle = NoToggle
  /\ wishItem = <<>>
  /\ score = <<>>
  /\ FormsIdle
  /\ Settled

\* Lines 1308-1319: the onClick of cat's button in bucket i's panel.
SetBudgetByClick(i, cat) ==
  /\ budget' = ToggledBudget(budget, i, cat)
  /\ lastToggle' = [kind   |-> IF Includes(budget[i].cats, cat) THEN "unassign" ELSE "assign",
                    bucket |-> i, cat |-> cat, from |-> TakenBy(budget, i, cat)]
  /\ UNCHANGED <<today, utcOffset, paydayDay, nextPayday, spending,
                 recurring, monthlyPay, periodIdx, wishItem, score, formVars,
                 editVars, mountVars>>

\* The click where the computed figures are not followed (SpecBudget).
ToggleCategory(i, cat) ==
  SetBudgetByClick(i, cat) /\ UNCHANGED <<periods, view>> /\ SaveEffects

\* The click and the render that follows.
ToggleCategoryRendered(i, cat) == SetBudgetByClick(i, cat) /\ RenderAll

BudgetNext ==
  \E i \in 1 .. Len(budget) :
    \E k \in 1 .. Min(NumClickCats, Len(ClickCats)) : ToggleCategory(i, ClickCats[k])

SpecBudget == BudgetInit /\ [][BudgetNext]_vars

\* The buckets whose category list holds cat.
BucketsOf(cat) == {i \in 1 .. Len(budget) : Includes(budget[i].cats, cat)}

\* C7: from the default buckets, after any clicks, every category is in at most one
\* bucket; a category assigned to a bucket is then in that bucket and in no other,
\* whichever bucket held it before the click.
C7_CategoryInOneBucket ==
  /\ \A c \in Range(DEFAULT_SPEND_CATS) : Cardinality(BucketsOf(c)) <= 1
  /\ lastToggle.kind = "assign" => BucketsOf(lastToggle.cat) = {lastToggle.bucket}
  /\ lastToggle.kind = "unassign" => BucketsOf(lastToggle.cat) = {}

\* C7's case: the last click moved a category out of another bucket.
C7_Witness ==
  /\ lastToggle.kind = "assign"
  /\ lastToggle.from # 0
  /\ lastToggle.from # lastToggle.bucket

(***************************************************************************)
(* SpecScore: impulseScore applied to every daysWanted of a range and      *)
(* every quiz score.                                                       *)
(***************************************************************************)

\* The largest daysWanted tried (the days term is capped at 90).
MaxDaysWanted == 120

ScoreInit ==
  /\ today = StartDay
  /\ utcOffset = 0
  /\ paydayDay = DefaultPaydayDay
  /\ nextPayday = NoPayday
  /\ spending = <<>>
  /\ periods = <<>>
  /\ budget = DEFAULT_BUDGET
  /\ recurring = <<>>
  /\ monthlyPay = DefaultMonthlyPay
  /\ periodIdx = 0
  /\ view = NoView
  /\ lastToggle = NoToggle
  /\ \E days \in 0 .. MaxDaysWanted, quiz \in {<<>>} \cup {<<n>> : n \in 0 .. 10} :
       wishItem = [daysWanted |-> days, quizScore |-> quiz]
  /\ score = <<>>
  /\ FormsIdle
  /\ Settled

\* Line 863: const score = impulseScore(item.daysWanted, item.quizScore)
CallImpulseScore ==
  /\ score' = <<impulseScore(wishItem.daysWanted, wishItem.quizScore)>>
  /\ UNCHANGED <<today, utcOffset, paydayDay, nextPayday, spending, periods, budget,
                 recurring, monthlyPay, periodIdx, view, lastToggle, wishItem, formVars,
                 editVars, mountVars, stored>>

ScoreNext == CallImpulseScore

SpecScore == ScoreInit /\ [][ScoreNext]_vars

\* C10: for daysWanted >= 0 and a quiz score absent or in 0..10 the score is
\* (50 * min(daysWanted, 90) / 90) + 5 * q, q the quiz score or 3 when absent, which
\* is min((min(daysWanted/90,1)*0.5 + (q/10)*0.5)*100, 100); it lies in [0,100];
\* score(90, absent) = 65 and score(0, 10) = 50.
C10_ScoreFormulaAndRange ==
  score # <<>> =>
    LET r  == score[1]
        qq == IF wishItem.quizScore = <<>> THEN 3 ELSE wishItem.quizScore[1]
    IN  /\ r[2] > 0
        /\ 9 * r[1] = r[2] * (5 * Min(wishItem.daysWanted, 90) + 45 * qq)
        /\ 0 <= r[1] /\ r[1] <= 100 * r[2]
        /\ (wishItem.daysWanted = 90 /\ wishItem.quizScore = <<>>) => r = <<65, 1>>
        /\ (wishItem.daysWanted = 0 /\ wishItem.quizScore = <<10>>) => r = <<50, 1>>

\* C10's case: the score of an item wanted for 90 days with no quiz taken is 65.
C10_Witness ==
  /\ score = << <<65, 1>> >>
  /\ wishItem.daysWanted = 90
  /\ wishItem.quizScore = <<>>

(***************************************************************************)
(* SpecQuiz: the quiz of a wishlist item, opened, answered in any order,   *)
(* closed, submitted and retaken.  The "Get my verdict" button is disabled *)
(* until every question has an answer (line 1394); submitQuiz itself does  *)
(* not test it and is applied here to every answer set.                    *)
(***************************************************************************)

\* The state after construction with no render computed.
DataIdle ==
  /\ today = StartDay
  /\ utcOffset = 0
  /\ paydayDay = DefaultPaydayDay
  /\ nextPayday = NoPayday
  /\ spending = <<>>
  /\ periods = <<>>
  /\ budget = DEFAULT_BUDGET
  /\ recurring = <<>>
  /\ monthlyPay = DefaultMonthlyPay
  /\ periodIdx = 0
  /\ view = NoView
  /\ lastToggle = NoToggle
  /\ wishItem = <<>>
  /\ score = <<>>

\* One item on the wishlist, as addWish creates it.
QuizInit ==
  /\ DataIdle
  /\ goals = <<>>
  /\ wishlist = addWishList(<<>>, [name |-> "Bag", price |-> <<40>>])
  /\ quizItem = Null
  /\ quizAns = <<>>
  /\ draftSpend = freshSpend
  /\ draftWish = freshWish
  /\ draftGoal = freshGoal
  /\ draftRecurr = freshRecurr
  /\ editSpend = Null
  /\ sheet = NoSheet
  /\ dateStr = <<>>
  /\ parsed = <<>>
  /\ Settled

\* Lines 906-909: setQuizItem(item); setQuizAns(item.savedAnswers||{})
OpenQuiz(k) ==
  /\ quizItem = Null
  /\ quizItem' = <<wishlist[k]>>
  /\ quizAns' = wishlist[k].savedAnswers
  /\ UNCHANGED <<today, utcOffset, paydayDay, nextPayday, spending, periods, budget,
                 recurring, monthlyPay, periodIdx, view, lastToggle, wishItem, score,
                 goals, wishlist, draftSpend, draftWish, draftGoal, draftRecurr,
                 editSpend, sheet, dateStr, parsed,
                 editVars, mountVars, stored>>

\* Line 1382: setQuizAns(a=>({...a,[i]:ans})), i from 0.
AnswerQuiz(i, ans) ==
  /\ quizItem # Null
  /\ quizAns' = [k \in DOMAIN quizAns \cup {i} |-> IF k = i THEN ans ELSE quizAns[k]]
  /\ UNCHANGED <<today, utcOffset, paydayDay, nextPayday, spending, periods, budget,
                 recurring, monthlyPay, periodIdx, view, lastToggle, wishItem, score,
                 goals, wishlist, quizItem, draftSpend, draftWish, draftGoal,
                 draftRecurr, editSpend, sheet, dateStr, parsed,
                 editVars, mountVars, stored>>

\* Line 1368: the popup's onClose.
CloseQuiz ==
  /\ quizItem # Null
  /\ quizItem' = Null
  /\ quizAns' = <<>>
  /\ UNCHANGED <<today, utcOffset, paydayDay, nextPayday, spending, periods, budget,
                 recurring, monthlyPay, periodIdx, view, lastToggle, wishItem, score,
                 goals, wishlist, draftSpend, draftWish, draftGoal, draftRecurr,
                 editSpend, sheet, dateStr, parsed,
                 editVars, mountVars, stored>>

\* Lines 506-512
submitQuiz ==
  /\ quizItem # Null
  /\ wishlist' = [k \in 1 .. Len(wishlist) |->
                    IF wishlist[k].id = quizItem[1].id
                      THEN [wishlist[k] EXCEPT !.quizScore = <<QuizNorm(quizAns)>>,
                                               !.savedAnswers = quizAns]
                      ELSE wishlist[k]]
  /\ quizItem' = Null
  /\ quizAns' = <<>>
  /\ UNCHANGED <<today, utcOffset, paydayDay, nextPayday, spending, periods, budget,
                 recurring, monthlyPay, periodIdx, view, lastToggle, wishItem, score,
                 goals, draftSpend, draftWish, draftGoal, draftRecurr,
                 editSpend, sheet, dateStr, parsed,
                 editVars, mountVars>>
  /\ SaveEffects

QuizNext ==
  \/ \E k \in 1 .. Len(wishlist) : OpenQuiz(k)
  \/ \E i \in 0 .. (Len(QUIZ_Q) - 1), ans \in {"yes", "no"} : AnswerQuiz(i, ans)
  \/ CloseQuiz
  \/ submitQuiz

SpecQuiz == QuizInit /\ [][QuizNext]_vars

\* 1 when question i (from 0) is answered "yes" in a, 0 when it is answered "no"
\* or not at all.
Yes(a, i) == IF i \in DOMAIN a /\ a[i] = "yes" THEN 1 ELSE 0

\* C11: the verdict submitQuiz stores with an answer set, complete or partial, is
\* clamp(5 + 3*yes1 - 2*yes2 + 2*yes3 + 2*yes4 + 3*yes5, 0, 10): a "no" and a missing
\* answer add nothing, the verdict is in 0..10, and question 1 alone answered "yes"
\* gives 8.
C11_QuizVerdict ==
  \A k \in 1 .. Len(wishlist) :
    wishlist[k].quizScore # Null =>
      LET a   == wishlist[k].savedAnswers
          raw == 5 + 3 * Yes(a, 0) - 2 * Yes(a, 1) + 2 * Yes(a, 2) + 2 * Yes(a, 3)
                   + 3 * Yes(a, 4)
          q   == wishlist[k].quizScore[1]
      IN  /\ q = (IF raw < 0 THEN 0 ELSE IF raw > 10 THEN 10 ELSE raw)
          /\ q \in 0 .. 10
          /\ (DOMAIN a = {0} /\ a[0] = "yes") => q = 8

\* C11's case: a verdict stored with only question 1 answered, "yes".
C11_Witness ==
  \E k \in 1 .. Len(wishlist) :
    /\ wishlist[k].quizScore = <<8>>
    /\ DOMAIN wishlist[k].savedAnswers = {0}
    /\ wishlist[k].savedAnswers[0] = "yes"

(***************************************************************************)
(* SpecDates: localDate applied to every date string of a range, in every  *)
(* host zone.                                                              *)
(***************************************************************************)

\* The strings spell NumDateStrs consecutive dates from 1 January 2024: a leap
\* day, year ends and 28 February 2026.
DateStrStart == DaysFromCivil(2024, 1, 1)
NumDateStrs  == 800

DatesInit ==
  /\ today = StartDay
  /\ utcOffset \in Offsets
  /\ paydayDay = DefaultPaydayDay
  /\ nextPayday = NoPayday
  /\ spending = <<>>
  /\ periods = <<>>
  /\ budget = DEFAULT_BUDGET
  /\ recurring = <<>>
  /\ monthlyPay = DefaultMonthlyPay
  /\ periodIdx = 0
  /\ view = NoView
  /\ lastToggle = NoToggle
  /\ wishItem = <<>>
  /\ score = <<>>
  /\ goals = <<>>
  /\ wishlist = <<>>
  /\ quizItem = Null
  /\ quizAns = <<>>
  /\ draftSpend = freshSpend
  /\ draftWish = freshWish
  /\ draftGoal = freshGoal
  /\ draftRecurr = freshRecurr
  /\ editSpend = Null
  /\ sheet = NoSheet
  /\ \E z \in DateStrStart .. (DateStrStart + NumDateStrs - 1) : dateStr = CivilFromDays(z)
  /\ parsed = <<>>
  /\ Settled

\* A call localDate(str), as at lines 126, 141 and 438.
CallLocalDate ==
  /\ parsed' = <<localDate(dateStr)>>
  /\ UNCHANGED <<today, utcOffset, paydayDay, nextPayday, spending, periods, budget,
                 recurring, monthlyPay, periodIdx, view, lastToggle, wishItem, score,
                 goals, wishlist, quizItem, quizAns, draftSpend, draftWish, draftGoal,
                 draftRecurr, editSpend, sheet, dateStr, editVars, mountVars, stored>>

DatesNext == CallLocalDate

SpecDates == DatesInit /\ [][DatesNext]_vars

\* C12: in every host zone, the date localDate makes of a YYYY-MM-DD string has the
\* local year, month and day-of-month the string spells ("2026-02-28" gives day 28):
\* the day does not shift, in particular not backward in a zone ahead of UTC.
C12_LocalDateKeepsDay ==
  parsed # <<>> =>
    /\ GetFullYear(parsed[1]) = dateStr[1]
    /\ GetMonth(parsed[1]) + 1 = dateStr[2]
    /\ GetDate(parsed[1]) = dateStr[3]
    /\ dateStr = <<2026, 2, 28>> => GetDate(parsed[1]) = 28

\* C12's case: "2026-02-28" parsed in a zone ahead of UTC.
C12_Witness ==
  /\ parsed # <<>>
  /\ dateStr = <<2026, 2, 28>>
  /\ utcOffset > 0
  /\ GetDate(parsed[1]) = 28

(***************************************************************************)
(* SpecForms: the four creation forms, opened, typed in and submitted.     *)
(* A sheet is closed by its handler when the entry is accepted; closing a  *)
(* form without submitting it is left out.                                 *)
(***************************************************************************)

\* The most transactions recorded, and the most wishes, goals and recurring
\* expenses created (taken together) in a behaviour of SpecForms.
MaxFormTx     == 1
MaxOtherItems == 1

\* What is typed in the number fields and in the name fields.
FieldNumbers == {0, -5, 40}
FieldNames   == {"", "Trip"}

\* Two goals, as addGoal creates them: one with nothing saved, one with 100.
InitGoals ==
  addGoalList(addGoalList(<<>>, [name |-> "Trip", target |-> <<500>>, current |-> NoNumber]),
              [name |-> "Car", target |-> <<900>>, current |-> <<100>>])

FormsInit ==
  /\ today = StartDay
  /\ utcOffset = 0
  /\ paydayDay = DefaultPaydayDay
  /\ nextPayday = getNextPayday(today, utcOffset, paydayDay)
  /\ spending = <<>>
  /\ periods = getPayPeriods(spending, nextPayday.iso)
  /\ budget = DEFAULT_BUDGET
  /\ recurring = <<>>
  /\ monthlyPay = DefaultMonthlyPay
  /\ periodIdx = 0
  /\ view = Render(spending, periods, periodIdx, recurring, monthlyPay, budget)
  /\ lastToggle = NoToggle
  /\ wishItem = <<>>
  /\ score = <<>>
  /\ goals = InitGoals
  /\ wishlist = <<>>
  /\ quizItem = Null
  /\ quizAns = <<>>
  /\ draftSpend = freshSpend
  /\ draftWish = freshWish
  /\ draftGoal = freshGoal
  /\ draftRecurr = freshRecurr
  /\ editSpend = Null
  /\ sheet = NoSheet
  /\ dateStr = <<>>
  /\ parsed = <<>>
  /\ Settled

\* The wishes, goals and recurring expenses created so far.
OtherItems == Len(wishlist) + (Len(goals) - Len(InitGoals)) + Len(recurring)

\* Lines 562, 671, 790, 848: the buttons that open a sheet from a tab.
OpenSheet(s) ==
  /\ sheet = NoSheet
  /\ s \in {"addGoal", "addWish"} => OtherItems < MaxOtherItems
  /\ sheet' = s
  /\ UNCHANGED <<today, utcOffset, paydayDay, nextPayday, spending, periods,
                 budget, recurring, monthlyPay, periodIdx, view, lastToggle,
                 wishItem, score, goals, wishlist, quizItem, quizAns, draftSpend,
                 draftWish, draftGoal, draftRecurr, editSpend, dateStr, parsed,
                 editVars, mountVars, stored>>

\* Line 1252: "Add recurring expense", in the settings sheet.
OpenAddRecurring ==
  /\ sheet = "settings"
  /\ OtherItems < MaxOtherItems
  /\ sheet' = "addRecurring"
  /\ UNCHANGED <<today, utcOffset, paydayDay, nextPayday, spending, periods,
                 budget, recurring, monthlyPay, periodIdx, view, lastToggle,
                 wishItem, score, goals, wishlist, quizItem, quizAns, draftSpend,
                 draftWish, draftGoal, draftRecurr, editSpend, dateStr, parsed,
                 editVars, mountVars, stored>>

\* Line 1152: the settings sheet's onClose.
CloseSettings ==
  /\ sheet = "settings"
  /\ sheet' = NoSheet
  /\ UNCHANGED <<today, utcOffset, paydayDay, nextPayday, spending, periods,
                 budget, recurring, monthlyPay, periodIdx, view, lastToggle,
                 wishItem, score, goals, wishlist, quizItem, quizAns, draftSpend,
                 draftWish, draftGoal, draftRecurr, editSpend, dateStr, parsed,
                 editVars, mountVars, stored>>

\* Line 1051: setDraftSpend(d=>({...d,amount:v}))
SetDraftSpendAmount(v) ==
  /\ sheet = "addSpend"
  /\ draftSpend' = [draftSpend EXCEPT !.amount = <<v>>]
  /\ UNCHANGED <<today, utcOffset, paydayDay, nextPayday, spending, periods,
                 budget, recurring, monthlyPay, periodIdx, view, lastToggle,
                 wishItem, score, goals, wishlist, quizItem, quizAns, draftWish,
                 draftGoal, draftRecurr, editSpend, sheet, dateStr, parsed,
                 editVars, mountVars, stored>>

\* Line 1054: setDraftSpend(d=>({...d,type:e.target.value,goalId:""}))
SetDraftSpendType(t) ==
  /\ sheet = "addSpend"
  /\ draftSpend' = [draftSpend EXCEPT !.type = t, !.goalId = NoNumber]
  /\ UNCHANGED <<today, utcOffset, paydayDay, nextPayday, spending, periods,
                 budget, recurring, monthlyPay, periodIdx, view, lastToggle,
                 wishItem, score, goals, wishlist, quizItem, quizAns, draftWish,
                 draftGoal, draftRecurr, editSpend, sheet, dateStr, parsed,
                 editVars, mountVars, stored>>

\* Line 1058-1061: the goal select, shown for a transfer or an investment when there
\* are goals; g is "" or a goal's id.
SetDraftSpendGoal(g) ==
  /\ sheet = "addSpend"
  /\ draftSpend.type \in {"Transfer to Savings", "Investment"}
  /\ Len(goals) > 0
  /\ draftSpend' = [draftSpend EXCEPT !.goalId = g]
  /\ UNCHANGED <<today, utcOffset, paydayDay, nextPayday, spending, periods,
                 budget, recurring, monthlyPay, periodIdx, view, lastToggle,
                 wishItem, score, goals, wishlist, quizItem, quizAns, draftWish,
                 draftGoal, draftRecurr, editSpend, sheet, dateStr, parsed,
                 editVars, mountVars, stored>>

\* Line 1117
SetDraftWishName(n) ==
  /\ sheet = "addWish"
  /\ draftWish' = [draftWish EXCEPT !.name = n]
  /\ UNCHANGED <<today, utcOffset, paydayDay, nextPayday, spending, periods,
                 budget, recurring, monthlyPay, periodIdx, view, lastToggle,
                 wishItem, score, goals, wishlist, quizItem, quizAns, draftSpend,
                 draftGoal, draftRecurr, editSpend, sheet, dateStr, parsed,
                 editVars, mountVars, stored>>

\* Line 1118
SetDraftWishPrice(v) ==
  /\ sheet = "addWish"
  /\ draftWish' = [draftWish EXCEPT !.price = <<v>>]
  /\ UNCHANGED <<today, utcOffset, paydayDay, nextPayday, spending, periods,
                 budget, recurring, monthlyPay, periodIdx, view, lastToggle,
                 wishItem, score, goals, wishlist, quizItem, quizAns, draftSpend,
                 draftGoal, draftRecurr, editSpend, sheet, dateStr, parsed,
                 editVars, mountVars, stored>>

\* Line 1131
SetDraftGoalName(n) ==
  /\ sheet = "addGoal"
  /\ draftGoal' = [draftGoal EXCEPT !.name = n]
  /\ UNCHANGED <<today, utcOffset, paydayDay, nextPayday, spending, periods,
                 budget, recurring, monthlyPay, periodIdx, view, lastToggle,
                 wishItem, score, goals, wishlist, quizItem, quizAns, draftSpend,
                 draftWish, draftRecurr, editSpend, sheet, dateStr, parsed,
                 editVars, mountVars, stored>>

\* Line 1132
SetDraftGoalTarget(v) ==
  /\ sheet = "addGoal"
  /\ draftGoal' = [draftGoal EXCEPT !.target = <<v>>]
  /\ UNCHANGED <<today, utcOffset, paydayDay, nextPayday, spending, periods,
                 budget, recurring, monthlyPay, periodIdx, view, lastToggle,
                 wishItem, score, goals, wishlist, quizItem, quizAns, draftSpend,
                 draftWish, draftRecurr, editSpend, sheet, dateStr, parsed,
                 editVars, mountVars, stored>>

\* Line 1133
SetDraftGoalCurrent(v) ==
  /\ sheet = "addGoal"
  /\ draftGoal' = [draftGoal EXCEPT !.current = <<v>>]
  /\ UNCHANGED <<today, utcOffset, paydayDay, nextPayday, spending, periods,
                 budget, recurring, monthlyPay, periodIdx, view, lastToggle,
                 wishItem, score, goals, wishlist, quizItem, quizAns, draftSpend,
                 draftWish, draftRecurr, editSpend, sheet, dateStr, parsed,
                 editVars, mountVars, stored>>

\* Line 1344
SetDraftRecurrName(n) ==
  /\ sheet = "addRecurring"
  /\ draftRecurr' = [draftRecurr EXCEPT !.name = n]
  /\ UNCHANGED <<today, utcOffset, paydayDay, nextPayday, spending, periods,
                 budget, recurring, monthlyPay, periodIdx, view, lastToggle,
                 wishItem, score, goals, wishlist, quizItem, quizAns, draftSpend,
                 draftWish, draftGoal, editSpend, sheet, dateStr, parsed,
                 editVars, mountVars, stored>>

\* Line 1346
SetDraftRecurrAmount(v) ==
  /\ sheet = "addRecurring"
  /\ draftRecurr' = [draftRecurr EXCEPT !.amount = <<v>>]
  /\ UNCHANGED <<today, utcOffset, paydayDay, nextPayday, spending, periods,
                 budget, recurring, monthlyPay, periodIdx, view, lastToggle,
                 wishItem, score, goals, wishlist, quizItem, quizAns, draftSpend,
                 draftWish, draftGoal, editSpend, sheet, dateStr, parsed,
                 editVars, mountVars, stored>>

\* Line 1089: the Save button's disabled attribute.
SaveDisabled ==
  /\ draftSpend.type \in {"Transfer to Savings", "Investment"}
  /\ draftSpend.goalId = NoNumber
  /\ Len(goals) > 0

\* addWish (lines 476-481) run on the form's content `draft`.
addWishAt(draft, now) ==
  /\ wishlist' = addWishListAt(wishlist, draft, now)
  /\ draftWish' = IF WishRejected(draft) THEN draft ELSE freshWish
  /\ sheet' = IF WishRejected(draft) THEN sheet ELSE NoSheet
  /\ UNCHANGED <<today, utcOffset, paydayDay, nextPayday, spending, periods,
                 budget, recurring, monthlyPay, periodIdx, view, lastToggle,
                 wishItem, score, goals, quizItem, quizAns, draftSpend, draftGoal,
                 draftRecurr, editSpend, dateStr, parsed,
                 editVars, mountVars>>
  /\ SaveEffects

\* addWish with a clock that has moved on since the earlier adds.
addWish(draft) == addWishAt(draft, NextId(wishlist))

\* addGoal (lines 483-487) run on the form's content `draft`.
addGoalAt(draft, now) ==
  /\ goals' = addGoalListAt(goals, draft, now)
  /\ draftGoal' = IF GoalRejected(draft) THEN draft ELSE freshGoal
  /\ sheet' = IF GoalRejected(draft) THEN sheet ELSE NoSheet
  /\ UNCHANGED <<today, utcOffset, paydayDay, nextPayday, spending, periods,
                 budget, recurring, monthlyPay, periodIdx, view, lastToggle,
                 wishItem, score, wishlist, quizItem, quizAns, draftSpend,
                 draftWish, draftRecurr, editSpend, dateStr, parsed,
                 editVars, mountVars>>
  /\ SaveEffects

\* addGoal with a clock that has moved on since the earlier adds.
addGoal(draft) == addGoalAt(draft, NextId(goals))

FormsNext ==
  \/ \E s \in {"addSpend", "addGoal", "addWish", "settings"} : OpenSheet(s)
  \/ OpenAddRecurring
  \/ CloseSettings
  \/ \E v \in FieldNumbers : SetDraftSpendAmount(v)
  \/ \E t \in Range(TRANSACTION_TYPES) : SetDraftSpendType(t)
  \/ \E g \in {NoNumber} \cup {<<goals[k].id>> : k \in 1 .. Len(goals)} : SetDraftSpendGoal(g)
  \/ \E n \in FieldNames : SetDraftWishName(n)
  \/ \E v \in FieldNumbers : SetDraftWishPrice(v)
  \/ \E n \in FieldNames : SetDraftGoalName(n)
  \/ \E v \in FieldNumbers : SetDraftGoalTarget(v)
  \/ \E v \in FieldNumbers : SetDraftGoalCurrent(v)
  \/ \E n \in FieldNames : SetDraftRecurrName(n)
  \/ \E v \in FieldNumbers : SetDraftRecurrAmount(v)
  \/ (sheet = "addSpend" /\ ~SaveDisabled /\ addSpend(MaxFormTx, draftSpend))
  \/ (sheet = "addWish" /\ addWish(draftWish))
  \/ (sheet = "addGoal" /\ addGoal(draftGoal))
  \/ (sheet = "addRecurring" /\ addRecurring(draftRecurr))

SpecForms == FormsInit /\ [][FormsNext]_vars

\* C13: a step that records a transaction of type Transfer to Savings or Investment
\* with an existing goal chosen adds the amount to that goal's current and leaves
\* every other goal as it was; a step that records an Expense (or a transfer with
\* no goal) leaves every goal as it was.
C13_GoalCreditedByTransfer ==
  [][Len(spending') = Len(spending) + 1 =>
       LET e == spending'[Len(spending')]
       IN  /\ Len(goals') = Len(goals)
           /\ \A k \in 1 .. Len(goals) :
                goals'[k] =
                  IF e.type \in {"Transfer to Savings", "Investment"}
                       /\ e.goalId = <<goals[k].id>>
                    THEN [goals[k] EXCEPT !.current = goals[k].current + e.amount]
                    ELSE goals[k]
           /\ e.type = "Expense" => goals' = goals]_vars

\* C13's case: an investment of 40 recorded for the second goal, which had 100.
C13_Witness ==
  /\ \E k \in 1 .. Len(spending) :
       /\ spending[k].type = "Investment"
       /\ spending[k].goalId = <<goals[2].id>>
       /\ spending[k].amount = 40
  /\ goals[2].current = 140
  /\ goals[1].current = 0

\* A number field that is empty or holds a number that is not positive.
NotPositive(v) == v = NoNumber \/ v[1] <= 0

\* The lists, the goal balances and the drafts are as they were.
NothingCreated ==
  UNCHANGED <<spending, goals, wishlist, recurring, draftSpend, draftWish, draftGoal,
              draftRecurr>>

\* C14: addSpend, addWish, addGoal and addRecurring change no list, no goal balance
\* and no draft when the amount / price / target is empty, zero or negative, or when
\* the wish's, goal's or recurring expense's name is missing.
C14_InvalidDraftIsNoOp ==
  [][/\ (addSpend(MaxFormTx, draftSpend) /\ NotPositive(draftSpend.amount))
          => NothingCreated
     /\ (addWish(draftWish) /\ (draftWish.name = "" \/ NotPositive(draftWish.price)))
          => NothingCreated
     /\ (addGoal(draftGoal) /\ (draftGoal.name = "" \/ NotPositive(draftGoal.target)))
          => NothingCreated
     /\ (addRecurring(draftRecurr)
           /\ (draftRecurr.name = "" \/ NotPositive(draftRecurr.amount)))
          => NothingCreated]_vars

(***************************************************************************)
(* SpecBuckets: the buckets' ideal, actual and over, with a category moved *)
(* between buckets, transactions of every type recorded, the income        *)
(* changed and every period selected.                                      *)
(***************************************************************************)

\* The longest transaction list.
MaxBucketTx == 2

\* Every transaction is of 300, dated today: the Groceries bucket (15%) has ideal
\* 480 with income 3200, 300 with income 2000 and 0 with income 0.  The Groceries
\* button is clicked in the panels of "Savings" (no category) and of "Groceries".
BucketsNext ==
  \/ \E i \in {1, 4} : ToggleCategoryRendered(i, "Groceries")
  \/ \E type \in {"Expense", NoType, "Investment"} :
       AddSpend(MaxBucketTx, today, "Groceries", 300, type)
  \/ AddSpend(MaxBucketTx, today, "Dining", 300, "Expense")
  \/ \E v \in {0, 2000, 3200} : SetMonthlyPay(v)
  \/ PeriodOlder
  \/ PeriodNewer

SpecBuckets == TotalsInit /\ [][BucketsNext]_vars

\* C15: for every bucket and the selected period, ideal = monthlyPay * pct / 100,
\* actual = the sum of the period's transactions of type Expense or of no type
\* whose category is one of the bucket's, over holds exactly when actual > ideal,
\* and a bucket with no categories has actual 0.
C15_BucketFigures ==
  /\ Len(view.buckets) = Len(budget)
  /\ \A i \in 1 .. Len(budget) :
       LET f == view.buckets[i]
           mine == {k \in 1 .. Len(SelectedItems) :
                      /\ SelectedItems[k].category \in Range(budget[i].cats)
                      /\ SelectedItems[k].type \notin {"Transfer to Savings", "Investment"}}
       IN  /\ f.ideal[2] > 0
           /\ f.ideal[1] * 100 = f.ideal[2] * monthlyPay * budget[i].pct
           /\ f.actual = SumAt(SelectedItems, mine)
           /\ f.over <=> (f.actual * 100 > monthlyPay * budget[i].pct)
           /\ budget[i].cats = <<>> => f.actual = 0

\* C15's case: a bucket over its ideal of 480 with two expenses of 300, none of
\* them an investment.
C15_Witness ==
  \E i \in 1 .. Len(budget) :
    /\ monthlyPay = 3200
    /\ budget[i].pct = 15
    /\ view.buckets[i].actual = 600
    /\ view.buckets[i].over

(***************************************************************************)
(* SpecCurrentPeriod: the render's payday and periods for every today,     *)
(* zone and paydayDay setting.                                             *)
(***************************************************************************)

\* Line 1173: the setting is kept within 1..28.
MaxPaydaySetting == 28

CurrentPeriodInit ==
  /\ today \in Days
  /\ utcOffset \in Offsets
  /\ paydayDay \in 1 .. MaxPaydaySetting
  /\ nextPayday = NoPayday
  /\ spending = <<>>
  /\ periods = <<>>
  /\ budget = DEFAULT_BUDGET
  /\ recurring = <<>>
  /\ monthlyPay = DefaultMonthlyPay
  /\ periodIdx = 0
  /\ view = NoView
  /\ lastToggle = NoToggle
  /\ wishItem = <<>>
  /\ score = <<>>
  /\ FormsIdle
  /\ Settled

\* Lines 352 and 441-448: the render computes the payday, then the periods and the
\* figures from it.
RenderPayday ==
  /\ nextPayday' = getNextPayday(today, utcOffset, paydayDay)
  /\ UNCHANGED <<today, utcOffset, paydayDay, spending, budget, recurring,
                 monthlyPay, periodIdx, lastToggle, wishItem, score, formVars,
                 editVars, mountVars>>
  /\ RenderAll

CurrentPeriodNext == RenderPayday

SpecCurrentPeriod == CurrentPeriodInit /\ [][CurrentPeriodNext]_vars

\* C16: for every today and every paydayDay in 1..28, today lies within the current
\* period: period[0].start <= today <= period[0].end.
C16_TodayInCurrentPeriod ==
  (PaydayCalled /\ paydayDay \in 1 .. 28)
    => (periods[1].start <= today /\ today <= periods[1].end)

(***************************************************************************)
(* SpecEdit: a transaction recorded, opened in the edit sheet, changed,    *)
(* saved or deleted.                                                       *)
(***************************************************************************)

\* The longest transaction list.
MaxEditTx == 1

\* Line 744: the row's onEdit; the rows are those of the selected period.
OpenEditSpend(i) ==
  /\ sheet = NoSheet
  /\ spending[i] \in Range(SelectedItems)
  /\ editSpend' = <<spending[i]>>
  /\ sheet' = "editSpend"
  /\ UNCHANGED <<today, utcOffset, paydayDay, nextPayday, spending, periods,
                 budget, recurring, monthlyPay, periodIdx, view, lastToggle,
                 wishItem, score, goals, wishlist, quizItem, quizAns, draftSpend,
                 draftWish, draftGoal, draftRecurr, dateStr, parsed,
                 editVars, mountVars, stored>>

\* Line 1106: setEditSpend({...editSpend,amount:v})
SetEditSpendAmount(v) ==
  /\ sheet = "editSpend"
  /\ editSpend # Null
  /\ editSpend' = <<[editSpend[1] EXCEPT !.amount = v]>>
  /\ UNCHANGED <<today, utcOffset, paydayDay, nextPayday, spending, periods,
                 budget, recurring, monthlyPay, periodIdx, view, lastToggle,
                 wishItem, score, goals, wishlist, quizItem, quizAns, draftSpend,
                 draftWish, draftGoal, draftRecurr, sheet, dateStr, parsed,
                 editVars, mountVars, stored>>

\* Line 1102: setEditSpend({...editSpend,category:e.target.value})
SetEditSpendCategory(c) ==
  /\ sheet = "editSpend"
  /\ editSpend # Null
  /\ editSpend' = <<[editSpend[1] EXCEPT !.category = c]>>
  /\ UNCHANGED <<today, utcOffset, paydayDay, nextPayday, spending, periods,
                 budget, recurring, monthlyPay, periodIdx, view, lastToggle,
                 wishItem, score, goals, wishlist, quizItem, quizAns, draftSpend,
                 draftWish, draftGoal, draftRecurr, sheet, dateStr, parsed,
                 editVars, mountVars, stored>>

\* Line 1095: the edit sheet's onClose; the copy stays.
CloseEditSpend ==
  /\ sheet = "editSpend"
  /\ sheet' = NoSheet
  /\ UNCHANGED <<today, utcOffset, paydayDay, nextPayday, spending, periods,
                 budget, recurring, monthlyPay, periodIdx, view, lastToggle,
                 wishItem, score, goals, wishlist, quizItem, quizAns, draftSpend,
                 draftWish, draftGoal, draftRecurr, editSpend, dateStr, parsed,
                 editVars, mountVars, stored>>

\* saveSpend that adds the saved amount to the transaction's goal.
saveSpendCrediting ==
  /\ sheet = "editSpend"
  /\ editSpend # Null
  /\ spending' = [k \in 1 .. Len(spending) |->
                    IF spending[k].id = editSpend[1].id THEN editSpend[1] ELSE spending[k]]
  /\ goals' = IF editSpend[1].goalId # NoNumber
                THEN GoalsCredited(goals, editSpend[1].goalId, editSpend[1].amount)
                ELSE goals
  /\ editSpend' = Null
  /\ sheet' = NoSheet
  /\ UNCHANGED <<today, utcOffset, paydayDay, nextPayday, budget, recurring,
                 monthlyPay, periodIdx, lastToggle, wishItem, score,
                 wishlist, quizItem, quizAns, draftSpend, draftWish, draftGoal,
                 draftRecurr, dateStr, parsed,
                 editVars, mountVars>>
  /\ RenderAll

\* saveSpend (lines 470-473) and the render that follows.
saveSpend ==
  /\ sheet = "editSpend"
  /\ editSpend # Null
  /\ spending' = [k \in 1 .. Len(spending) |->
                    IF spending[k].id = editSpend[1].id THEN editSpend[1] ELSE spending[k]]
  /\ editSpend' = Null
  /\ sheet' = NoSheet
  /\ UNCHANGED <<today, utcOffset, paydayDay, nextPayday, budget, recurring,
                 monthlyPay, periodIdx, lastToggle, wishItem, score, goals,
                 wishlist, quizItem, quizAns, draftSpend, draftWish, draftGoal,
                 draftRecurr, dateStr, parsed,
                 editVars, mountVars>>
  /\ RenderAll

\* Line 1109: the edit sheet's Delete button, and the render that follows.
DeleteEditedSpend ==
  /\ sheet = "editSpend"
  /\ editSpend # Null
  /\ spending' = SelectSeq(spending, LAMBDA x : x.id # editSpend[1].id)
  /\ editSpend' = Null
  /\ sheet' = NoSheet
  /\ UNCHANGED <<today, utcOffset, paydayDay, nextPayday, budget, recurring,
                 monthlyPay, periodIdx, lastToggle, wishItem, score, goals,
                 wishlist, quizItem, quizAns, draftSpend, draftWish, draftGoal,
                 draftRecurr, dateStr, parsed,
                 editVars, mountVars>>
  /\ RenderAll

EditNext ==
  \/ (sheet = NoSheet /\ AddSpend(MaxEditTx, today, "Groceries", 40, "Expense"))
  \/ \E i \in 1 .. Len(spending) : OpenEditSpend(i)
  \/ \E v \in FieldNumbers \cup {25} : SetEditSpendAmount(v)
  \/ \E c \in {"Groceries", "Dining"} : SetEditSpendCategory(c)
  \/ CloseEditSpend
  \/ saveSpend
  \/ DeleteEditedSpend

SpecEdit == TotalsInit /\ [][EditNext]_vars

\* C20: in every reachable state every recorded transaction has an amount greater
\* than zero, after addSpend and after an edit saved by saveSpend.
C20_AmountsPositive ==
  \A k \in 1 .. Len(spending) : spending[k].amount > 0

(***************************************************************************)
(* SpecRecords: two goals; transfers and investments recorded from the     *)
(* "Add transaction" sheet with a goal chosen, a goal deleted before or    *)
(* after, transactions edited and deleted.                                 *)
(***************************************************************************)

\* The longest transaction list of SpecRecords.
MaxRecordsTx == 1
\* Transactions are recorded while the goals hold less than this in all.
MaxSaved == 180

\* Line 1006: the "Add transaction" sheet's onClose; the draft stays.
CloseAddSpend ==
  /\ sheet = "addSpend"
  /\ sheet' = NoSheet
  /\ UNCHANGED <<today, utcOffset, paydayDay, nextPayday, spending, periods,
                 budget, recurring, monthlyPay, periodIdx, view, lastToggle,
                 wishItem, score, goals, wishlist, quizItem, quizAns, draftSpend,
                 draftWish, draftGoal, draftRecurr, editSpend, dateStr, parsed,
                 editVars, mountVars, stored>>

\* Line 824: a goal's card opens the edit sheet on a copy of the goal.
OpenEditGoal(i) ==
  /\ sheet = NoSheet
  /\ editGoal' = <<goals[i]>>
  /\ sheet' = "editGoal"
  /\ UNCHANGED <<today, utcOffset, paydayDay, nextPayday, spending, periods,
                 budget, recurring, monthlyPay, periodIdx, view, lastToggle,
                 wishItem, score, goals, wishlist, quizItem, quizAns, draftSpend,
                 draftWish, draftGoal, draftRecurr, editSpend, dateStr, parsed,
                 editRecurr, mountVars, stored>>

\* Line 1139: the edit sheet's onClose; the copy stays.
CloseEditGoal ==
  /\ sheet = "editGoal"
  /\ sheet' = NoSheet
  /\ UNCHANGED <<today, utcOffset, paydayDay, nextPayday, spending, periods,
                 budget, recurring, monthlyPay, periodIdx, view, lastToggle,
                 wishItem, score, goals, wishlist, quizItem, quizAns, draftSpend,
                 draftWish, draftGoal, draftRecurr, editSpend, dateStr, parsed,
                 editVars, mountVars, stored>>

\* deleteGoal (line 489).
deleteGoal ==
  /\ sheet = "editGoal"
  /\ editGoal # Null
  /\ goals' = SelectSeq(goals, LAMBDA x : x.id # editGoal[1].id)
  /\ editGoal' = Null
  /\ sheet' = NoSheet
  /\ UNCHANGED <<today, utcOffset, paydayDay, nextPayday, spending, periods,
                 budget, recurring, monthlyPay, periodIdx, view, lastToggle,
                 wishItem, score, wishlist, quizItem, quizAns, draftSpend,
                 draftWish, draftGoal, draftRecurr, editSpend, dateStr, parsed,
                 editRecurr, mountVars>>
  /\ SaveEffects

\* What the goals hold in all.
RECURSIVE TotalSaved(_)
TotalSaved(gs) == IF gs = <<>> THEN 0 ELSE gs[1].current + TotalSaved(Tail(gs))

RecordsNext ==
  \/ OpenSheet("addSpend")
  \/ CloseAddSpend
  \/ SetDraftSpendAmount(40)
  \/ \E t \in Range(TRANSACTION_TYPES) : SetDraftSpendType(t)
  \/ \E g \in {NoNumber} \cup {<<goals[k].id>> : k \in 1 .. Len(goals)} : SetDraftSpendGoal(g)
  \/ (sheet = "addSpend" /\ ~SaveDisabled /\ TotalSaved(goals) < MaxSaved
        /\ addSpend(MaxRecordsTx, draftSpend))
  \/ \E i \in 1 .. Len(goals) : OpenEditGoal(i)
  \/ deleteGoal
  \/ \E i \in 1 .. Len(spending) : sheet = NoSheet /\ DeleteSpend(i)
  \/ \E i \in 1 .. Len(spending) : OpenEditSpend(i)
  \/ SetEditSpendAmount(25)
  \/ saveSpend
  \/ DeleteEditedSpend

SpecRecords == FormsInit /\ [][RecordsNext]_vars

\* No goal of gs has the id the reference names, or the reference is empty.
Unresolved(gs, goalId) ==
  goalId = NoNumber \/ \A k \in 1 .. Len(gs) : gs[k].id # goalId[1]

TransferGoneOrChanged ==
  \E k \in 1 .. Len(spending) :
    /\ spending[k].type \in {"Transfer to Savings", "Investment"}
    /\ spending[k] \notin Range(spending')

\* C29: a step that deletes a recorded transfer or investment, or saves an edit of
\* it, leaves every goal as it was.
C29_DeleteAndEditKeepGoals ==
  [][TransferGoneOrChanged => goals' = goals]_vars

\* C29's case: a transfer of 40 to the first goal was recorded and its amount then
\* edited to 25; the goal still holds the 40.
C29_Witness ==
  /\ Len(goals) = 2
  /\ goals[1].current = 40
  /\ goals[2].current = 100
  /\ \E k \in 1 .. Len(spending) :
       /\ spending[k].type = "Transfer to Savings"
       /\ spending[k].goalId = <<goals[1].id>>
       /\ spending[k].amount = 25

(***************************************************************************)
(* SpecIds: records added with the id Date.now() gives, the clock's        *)
(* reading being the same as at an earlier add or another; records edited  *)
(* and deleted by id.                                                      *)
(***************************************************************************)

\* The longest transaction list and goal list of SpecIds, and the longest wishlist.
MaxIdRecords == 2
MaxIdWishes  == 1

\* The readings of the clock, in milliseconds from some instant.
Readings == {1, 2}

\* Line 879: the wishlist row's delete button.
DeleteWish(i) ==
  /\ wishlist' = SelectSeq(wishlist, LAMBDA x : x.id # wishlist[i].id)
  /\ UNCHANGED <<today, utcOffset, paydayDay, nextPayday, spending, periods,
                 budget, recurring, monthlyPay, periodIdx, view, lastToggle,
                 wishItem, score, goals, quizItem, quizAns, draftSpend,
                 draftWish, draftGoal, draftRecurr, editSpend, sheet, dateStr, parsed,
                 editVars, mountVars>>
  /\ SaveEffects

\* Each form is filled in and submitted; `now` is what Date.now() returns.
IdsNext ==
  \/ \E now \in Readings :
       sheet = NoSheet /\ addSpendAt(MaxIdRecords, [freshSpend EXCEPT !.amount = <<40>>], now)
  \/ \E now \in Readings :
       /\ sheet = NoSheet
       /\ Len(goals) < MaxIdRecords
       /\ addGoalAt([name |-> "Trip", target |-> <<500>>, current |-> NoNumber], now)
  \/ \E now \in Readings :
       /\ sheet = NoSheet
       /\ Len(wishlist) < MaxIdWishes
       /\ addWishAt([name |-> "Bag", price |-> <<40>>], now)
  \/ \E now \in Readings :
       sheet \in {NoSheet, "settings"} /\ addRecurringAt([name |-> "Rent", amount |-> <<300>>], now)
  \/ CloseSettings
  \/ \E i \in 1 .. Len(spending) : sheet = NoSheet /\ DeleteSpend(i)
  \/ \E i \in 1 .. Len(spending) : OpenEditSpend(i)
  \/ SetEditSpendAmount(25)
  \/ saveSpend
  \/ DeleteEditedSpend
  \/ \E i \in 1 .. Len(goals) : OpenEditGoal(i)
  \/ deleteGoal
  \/ \E i \in 1 .. Len(wishlist) : sheet = NoSheet /\ DeleteWish(i)
  \/ \E i \in 1 .. Len(recurring) : sheet = "settings" /\ DeleteRecurring(i)

SpecIds == TotalsInit /\ [][IdsNext]_vars

\* No two records of the list have the same id.
IdsDistinct(arr) ==
  \A i, j \in 1 .. Len(arr) : i # j => arr[i].id # arr[j].id

\* From arr to next at most one record was removed, or at most one was changed.
AtMostOneAffected(arr, next) ==
  /\ Len(next) >= Len(arr) - 1
  /\ Len(next) = Len(arr) => Cardinality({k \in 1 .. Len(arr) : next[k] # arr[k]}) <= 1

\* C26: in every state the records of each list have ids that differ from one
\* another, also when two records were added at the same reading of the clock; and
\* every step removes at most one record of a list and changes at most one.
C26_IdsUnique ==
  /\ [](/\ IdsDistinct(spending)
        /\ IdsDistinct(goals)
        /\ IdsDistinct(wishlist)
        /\ IdsDistinct(recurring))
  /\ [][/\ AtMostOneAffected(spending, spending')
        /\ AtMostOneAffected(goals, goals')
        /\ AtMostOneAffected(wishlist, wishlist')
        /\ AtMostOneAffected(recurring, recurring')]_vars

(***************************************************************************)
(* SpecClear: "Clear all data" after goals were chosen in the transaction  *)
(* form, records opened in their edit sheets and another period selected.  *)
(***************************************************************************)

\* The longest transaction list of SpecClear.
MaxClearTx == 1

\* Line 1245: a recurring expense's edit button, in the settings sheet.
OpenEditRecurring(i) ==
  /\ sheet = "settings"
  /\ editRecurr' = <<recurring[i]>>
  /\ sheet' = "editRecurring"
  /\ UNCHANGED <<today, utcOffset, paydayDay, nextPayday, spending, periods,
                 budget, recurring, monthlyPay, periodIdx, view, lastToggle,
                 wishItem, score, goals, wishlist, quizItem, quizAns, draftSpend,
                 draftWish, draftGoal, draftRecurr, editSpend, dateStr, parsed,
                 editGoal, mountVars, stored>>

\* Line 1354: the edit sheet's onClose shows the settings again; the copy stays.
CloseEditRecurring ==
  /\ sheet = "editRecurring"
  /\ sheet' = "settings"
  /\ UNCHANGED <<today, utcOffset, paydayDay, nextPayday, spending, periods,
                 budget, recurring, monthlyPay, periodIdx, view, lastToggle,
                 wishItem, score, goals, wishlist, quizItem, quizAns, draftSpend,
                 draftWish, draftGoal, draftRecurr, editSpend, dateStr, parsed,
                 editVars, mountVars, stored>>

\* Lines 523-525 and 425-433: every key is deleted; the save effects of the render
\* that follows write the four lists again (each is a new array) and the other keys
\* whose value changed.
ClearedStorage(old, new) ==
  [k \in Keys |->
     IF k \in {"goals", "wishlist", "spending", "recurring"} \/ new[k] # old[k]
       THEN <<new[k]>> ELSE Null]

\* clearAllData (lines 515-527), from the settings sheet, and the render.
clearAllData ==
  /\ sheet = "settings"
  /\ goals' = <<>>
  /\ wishlist' = <<>>
  /\ spending' = <<>>
  /\ recurring' = <<>>
  /\ budget' = DEFAULT_BUDGET
  /\ monthlyPay' = 0
  /\ paydayDay' = 6
  /\ editGoal' = Null
  /\ editSpend' = Null
  /\ editRecurr' = Null
  /\ quizItem' = Null
  /\ quizAns' = <<>>
  /\ periodIdx' = 0
  /\ sheet' = NoSheet
  /\ nextPayday' = getNextPayday(today, utcOffset, paydayDay')
  /\ UNCHANGED <<today, utcOffset, lastToggle, wishItem, score, draftSpend,
                 draftWish, draftGoal, draftRecurr, dateStr, parsed, mountVars>>
  /\ RenderFigures
  /\ stored' = ClearedStorage(PersistedState, PersistedState')

ClearNext ==
  \/ \E s \in {"addSpend", "settings"} : OpenSheet(s)
  \/ \E t \in Range(TRANSACTION_TYPES) : SetDraftSpendType(t)
  \/ \E g \in {NoNumber} \cup {<<goals[k].id>> : k \in 1 .. Len(goals)} : SetDraftSpendGoal(g)
  \/ CloseAddSpend
  \/ CloseSettings
  \/ (sheet = NoSheet /\ AddSpend(MaxClearTx, today, "Groceries", 40, "Expense"))
  \/ \E i \in 1 .. Len(spending) : OpenEditSpend(i)
  \/ CloseEditSpend
  \/ \E i \in 1 .. Len(goals) : OpenEditGoal(i)
  \/ CloseEditGoal
  \/ (sheet = "settings" /\ AddRecurring(300))
  \/ \E i \in 1 .. Len(recurring) : OpenEditRecurring(i)
  \/ CloseEditRecurring
  \/ (sheet = NoSheet /\ periodIdx = 0 /\ PeriodOlder)
  \/ clearAllData

SpecClear == FormsInit /\ [][ClearNext]_vars

\* C27: after clearAllData the goals, the wishlist, the transactions and the
\* recurring expenses are empty, the buckets are the default ones, no goal,
\* transaction, recurring expense or quiz is being edited or answered, the first
\* period is selected, and the transaction form names no goal (every goal having
\* been deleted).
C27_ClearAllData ==
  [][clearAllData =>
       /\ goals' = <<>>
       /\ wishlist' = <<>>
       /\ spending' = <<>>
       /\ recurring' = <<>>
       /\ budget' = DEFAULT_BUDGET
       /\ editGoal' = Null
       /\ editSpend' = Null
       /\ editRecurr' = Null
       /\ quizItem' = Null
       /\ quizAns' = <<>>
       /\ periodIdx' = 0
       /\ draftSpend'.goalId = NoNumber]_vars

(***************************************************************************)
(* SpecBucketSums: the buckets' actual figures against the period's        *)
(* expense total, with categories assigned and unassigned, expenses        *)
(* recorded in two periods and edited, and every period selected.          *)
(***************************************************************************)

\* The longest transaction list of SpecBucketSums.
MaxSumTx == 1
\* How far before today the older expense is dated: in the period before the
\* current one.
DaysBack == 40

BucketSumsNext ==
  \/ \E i \in {1, 4} : (sheet = NoSheet /\ ToggleCategoryRendered(i, "Groceries"))
  \/ \E day \in {today, today - DaysBack} :
       (sheet = NoSheet /\ AddSpend(MaxSumTx, day, "Groceries", 40, "Expense"))
  \/ \E i \in 1 .. Len(spending) : OpenEditSpend(i)
  \/ \E v \in {-5, 25} : SetEditSpendAmount(v)
  \/ CloseEditSpend
  \/ saveSpend
  \/ (sheet = NoSheet /\ PeriodOlder)
  \/ (sheet = NoSheet /\ PeriodNewer)

SpecBucketSums == TotalsInit /\ [][BucketSumsNext]_vars

\* The sum of the buckets' actual figures, as rendered for the selected period.
SumOfActuals ==
  SumValues([i \in 1 .. Len(view.buckets) |-> view.buckets[i].actual],
            1 .. Len(view.buckets))

\* C28: in every state reached from the default buckets by clicks on the category
\* buttons, the buckets' actual figures of the selected period sum to at most the
\* period's expense total.
C28_BucketSumWithinSpend == SumOfActuals <= view.periodSpend

(***************************************************************************)
(* SpecLoad: the mount.  The load effect arms the 2-second timer and       *)
(* starts loadAll, which awaits the nine storageGet calls; the storage     *)
(* may settle them before or after the timer fires, or never.  Once the    *)
(* app is ready the user records and deletes transactions and changes the  *)
(* income.  The component may be unmounted at any time.                    *)
(***************************************************************************)

\* The longest transaction list of SpecLoad.
MaxLoadTx == 1

\* Nothing stored: a first start, or a storage that was cleared.
NothingStored == [k \in Keys |-> Null]

\* What an earlier session stored: another income and payday and one expense.
PreviousSession ==
  [pay |-> <<2500>>, paydayday |-> <<15>>, goals |-> <<(<<>>)>>,
   wishlist |-> <<(<<>>)>>,
   spending |-> <<addSpendList(<<>>, [freshSpend EXCEPT !.amount = <<40>>])>>,
   recurring |-> <<(<<>>)>>, budget |-> <<DEFAULT_BUDGET>>]

\* The values of useState (lines 348-359).
DefaultState ==
  [pay |-> DefaultMonthlyPay, paydayday |-> DefaultPaydayDay, goals |-> <<>>,
   wishlist |-> <<>>, spending |-> <<>>, recurring |-> <<>>,
   budget |-> DEFAULT_BUDGET]

\* The state after the first render and the load effect's start (lines 345-423).
LoadInit ==
  /\ today = StartDay
  /\ utcOffset = 0
  /\ paydayDay = DefaultState.paydayday
  /\ nextPayday = getNextPayday(today, utcOffset, paydayDay)
  /\ spending = DefaultState.spending
  /\ periods = getPayPeriods(spending, nextPayday.iso)
  /\ budget = DefaultState.budget
  /\ recurring = DefaultState.recurring
  /\ monthlyPay = DefaultState.pay
  /\ periodIdx = 0
  /\ view = Render(spending, periods, periodIdx, recurring, monthlyPay, budget)
  /\ lastToggle = NoToggle
  /\ wishItem = <<>>
  /\ score = <<>>
  /\ FormsIdle
  /\ editGoal = Null
  /\ editRecurr = Null
  /\ ready = FALSE
  /\ cancelled = FALSE
  /\ fallbackTimer = "armed"
  /\ loadAll = "reading"
  /\ fetched = Null
  /\ stored \in {NothingStored, PreviousSession}

\* storageGet (lines 7-19) for every key: the value stored, or null for a key that
\* holds nothing or whose read or parse failed.
storageGet(st, failed) == [k \in Keys |-> IF k \in failed THEN Null ELSE st[k]]

\* Lines 393-403: the storage reads the values the nine storageGet calls will
\* return (all at one time); loadAll goes on when they have been handed over.
StorageGetSettles(failed) ==
  /\ loadAll = "reading"
  /\ loadAll' = "read"
  /\ fetched' = storageGet(stored, failed)
  /\ UNCHANGED <<today, utcOffset, paydayDay, nextPayday, spending, periods, budget,
                 recurring, monthlyPay, periodIdx, view, lastToggle, wishItem, score,
                 formVars, editVars, ready, cancelled, fallbackTimer, stored>>

\* Lines 404-413: if (cancelled) return; if (x != null) setX(x).
LoadedValue(c, got, current) == IF c \/ got = Null THEN current ELSE got[1]

\* setReady(true) never called: ready stays as it is.
ReadyUnset(rdy, c) == rdy

\* Lines 390, 418: if (!cancelled) setReady(true).
ReadySet(rdy, c) == IF ~c THEN TRUE ELSE rdy

\* Lines 404-419: loadAll goes on after the await, and the render follows.
loadAllResumes ==
  /\ loadAll = "read"
  /\ loadAll' = "done"
  /\ fetched' = Null
  /\ monthlyPay' = LoadedValue(cancelled, fetched.pay, monthlyPay)
  /\ paydayDay' = LoadedValue(cancelled, fetched.paydayday, paydayDay)
  /\ goals' = LoadedValue(cancelled, fetched.goals, goals)
  /\ wishlist' = LoadedValue(cancelled, fetched.wishlist, wishlist)
  /\ spending' = LoadedValue(cancelled, fetched.spending, spending)
  /\ recurring' = LoadedValue(cancelled, fetched.recurring, recurring)
  /\ budget' = LoadedValue(cancelled, fetched.budget, budget)
  /\ fallbackTimer' = IF fallbackTimer = "armed" THEN "cleared" ELSE fallbackTimer
  /\ ready' = ReadySet(ready, cancelled)
  /\ nextPayday' = getNextPayday(today, utcOffset, paydayDay')
  /\ UNCHANGED <<today, utcOffset, periodIdx, lastToggle, wishItem, score,
                 quizItem, quizAns, draftSpend, draftWish, draftGoal, draftRecurr,
                 editSpend, sheet, dateStr, parsed, editVars, cancelled>>
  /\ RenderAll

\* Line 390: the timer's callback, 2 seconds after the mount, and the render.
TimerFires ==
  /\ fallbackTimer = "armed"
  /\ fallbackTimer' = "fired"
  /\ ready' = ReadySet(ready, cancelled)
  /\ UNCHANGED <<today, utcOffset, paydayDay, nextPayday, spending, budget,
                 recurring, monthlyPay, periodIdx, lastToggle, wishItem, score,
                 formVars, editVars, cancelled, loadAll, fetched>>
  /\ RenderAll

\* Line 422: the effect's cleanup.
Unmount ==
  /\ ~cancelled
  /\ cancelled' = TRUE
  /\ fallbackTimer' = IF fallbackTimer = "armed" THEN "cleared" ELSE fallbackTimer
  /\ UNCHANGED <<today, utcOffset, paydayDay, nextPayday, spending, periods, budget,
                 recurring, monthlyPay, periodIdx, view, lastToggle, wishItem, score,
                 formVars, editVars, ready, loadAll, fetched, stored>>

\* Lines 529-533: the tabs and sheets are rendered once ready, while mounted.
Usable == ready /\ ~cancelled

LoadNext ==
  \/ \E failed \in {{}, {"spending"}, Keys} : StorageGetSettles(failed)
  \/ loadAllResumes
  \/ TimerFires
  \/ Unmount
  \/ Usable /\ \E amount \in {70, 90} :
                 AddSpend(MaxLoadTx, today, "Groceries", amount, "Expense")
  \/ Usable /\ \E i \in 1 .. Len(spending) : DeleteSpend(i)
  \/ Usable /\ \E v \in {1000, 3200} : SetMonthlyPay(v)

SpecLoad == LoadInit /\ [][LoadNext]_vars

\* The timer's callback runs once its 2 seconds have passed; nothing makes the
\* storage settle the reads.
SpecLoadFair == SpecLoad /\ WF_vars(TimerFires)

\* C21: a stored key changes only in a step at whose end loadAll has run to its
\* end: no save effect writes before the stored values were loaded, so a stored
\* value is never replaced by a default.
C21_NoSaveBeforeLoaded ==
  [][stored' # stored => loadAll' = "done"]_vars

\* C22: when loadAll goes on after the app became ready, no value that differs from
\* its default (which only the user can have made so) is changed by it.
C22_LoadKeepsUserChanges ==
  [][(loadAll = "read" /\ loadAll' = "done" /\ ready)
       => \A k \in Keys :
            PersistedState[k] # DefaultState[k] => PersistedState'[k] = PersistedState[k]]_vars

\* C30: unless the component is unmounted the app becomes ready, whatever the
\* storage does; and ready, once true, stays true.
C30_EventuallyReady ==
  /\ <>(ready \/ cancelled)
  /\ [][ready => ready']_vars

\* C30's case: ready by the timer while the reads have not settled.
C30_Witness ==
  /\ ready
  /\ ~cancelled
  /\ loadAll = "reading"
  /\ fallbackTimer = "fired"
====
